---- MODULE Spec2Model ----
(***************************************************************************)
(* Verification model of the homedesign-ai core:                           *)
(*   - the rule-based compliance engine (registry, jurisdiction            *)
(*     amendments, rule filtering, rule execution), specification          *)
(*     SpecEngine;                                                         *)
(*   - the floor-plan layout pipeline (greedy occupancy-grid placement     *)
(*     followed by circulation repair), specification SpecLayout.          *)
(* Lengths are feet on the 1-ft grid; room centres are kept doubled        *)
(* (2*x + width) so that half-foot centres stay integers.                  *)
(***************************************************************************)
EXTENDS Integers, Sequences, FiniteSets, TLC

VARIABLES
  lib,        \* the rule objects of the rule-library modules, shared by every engine
  registry,   \* engine -> its SimpleRuleRegistry.rules, in Map insertion order
  created,    \* the engines constructed so far
  lastCall,   \* the check / runComplianceCheck call that has just returned, with its outcome
  firstIrc,   \* engine -> the R304.3 result of its first irc-base check (history)
  coloradoRuns, \* TRUE once runComplianceCheck has produced a colorado report (history)
  zoned,      \* the ZonedPlan, envelope and PlacementOptions handed to placeRooms
  phase,      \* "idle", "zoned", "placing", "placed" (placeRooms returned), "circulating", "done"
  queue,      \* roomsInPlacementOrder still to be visited
  floorGrids, \* floor -> the occupied cells of its occupancy grid
  planRooms,  \* placedRooms, later the rooms of the plan under circulation repair
  unplacedRoomIds,
  planDoors,  \* the doors ensureCirculation has added
  warnings,   \* metadata.warnings
  iteration,  \* iterations of the repair loop that inserted a hallway
  circulation, \* plan.circulation
  firstPass,  \* the plan of the first ensureCirculation call, once a second call runs on it
  designBrief, \* the DesignBrief handed to normalizeDesignBrief
  normalizedBrief, \* the NormalizedBrief it returned
  buildingEnvelope, \* the BuildingEnvelope computeEnvelope made of the normalized brief
  zonedBrief, \* the rooms of the ZonedPlan assignZones made of the normalized brief
  scoreArgs,  \* the PlacedPlan and WallAnalysis handed to scorePlan
  planScore,  \* the PlanScore it returned
  variationBrief, \* the NormalizedBrief and envelope handed to generateVariations
  variationIndex, \* the entry of `variations` its loop is at
  variationPlans, \* `plans`, the plans pushed so far
  planStages, \* the stages the plan of the current variation has been through (history)
  planWindows, \* the windows of the plan of the current variation
  roomsRef,   \* the identity of the array that is the current plan's rooms list
  nextRef     \* the identities of arrays handed out so far, plus one

engineVars == <<lib, registry, created, lastCall, firstIrc, coloradoRuns>>

layoutVars ==
  <<zoned, phase, queue, floorGrids, planRooms, unplacedRoomIds, planDoors, warnings,
    iteration, circulation, firstPass>>

briefVars == <<designBrief, normalizedBrief, buildingEnvelope, zonedBrief>>

scoreVars == <<scoreArgs, planScore>>

variationVars ==
  <<variationBrief, variationIndex, variationPlans, planStages, planWindows, roomsRef,
    nextRef>>

vars == <<engineVars, layoutVars, briefVars, scoreVars, variationVars>>

\* the layout pipeline is not running
LayoutIdle ==
  /\ zoned = <<>>
  /\ phase = "idle"
  /\ queue = <<>>
  /\ floorGrids = <<>>
  /\ planRooms = <<>>
  /\ unplacedRoomIds = <<>>
  /\ planDoors = <<>>
  /\ warnings = <<>>
  /\ iteration = 0
  /\ circulation = <<>>
  /\ firstPass = <<>>

\* normalizeDesignBrief has not been called
BriefIdle ==
  /\ designBrief = <<>>
  /\ normalizedBrief = <<>>
  /\ buildingEnvelope = <<>>
  /\ zonedBrief = <<>>

\* scorePlan has not been called
ScoreIdle ==
  /\ scoreArgs = <<>>
  /\ planScore = <<>>

\* generateVariations has not been called
VariationsIdle ==
  /\ variationBrief = <<>>
  /\ variationIndex = 0
  /\ variationPlans = <<>>
  /\ planStages = <<>>
  /\ planWindows = <<>>
  /\ roomsRef = 0
  /\ nextRef = 1

(***************************************************************************)
(* Small helpers on sequences.                                             *)
(***************************************************************************)
SeqToSet(s) == {s[i] : i \in 1..Len(s)}

RECURSIVE SumSeq(_)
SumSeq(s) == IF s = <<>> THEN 0 ELSE Head(s) + SumSeq(Tail(s))

\* index of the first element of s whose id is `id`, 0 when there is none
IndexOfId(s, id) ==
  IF \E i \in 1..Len(s) : s[i].id = id
    THEN CHOOSE i \in 1..Len(s) : s[i].id = id /\ \A j \in 1..(i - 1) : s[j].id # id
    ELSE 0

(***************************************************************************)
(* Compliance engine: data.                                                *)
(***************************************************************************)
Engines == {"e1"}

R3041 == "R304.1-bedroom-area"
R3043 == "R304.3-ceiling-height"
R3112 == "R311.2-exterior-door"
EGarage == "energy-garage-separation"

BaseJurisdictions == {"irc-base", "colorado"}
AllJurisdictions == {"irc-base", "colorado", "california", "texas", "florida"}

\* The part of the base library the model carries, in the order in which the
\* engine constructor concatenates the rule sets (room minimums, egress, ..., energy).
Library == <<
  [id |-> R3041, category |-> "room-minimums", enabled |-> TRUE,
   juris |-> BaseJurisdictions, version |-> "1.0", check |-> "minimumBedroomArea"],
  [id |-> R3043, category |-> "room-minimums", enabled |-> TRUE,
   juris |-> BaseJurisdictions, version |-> "1.0", check |-> "minimumCeilingHeight"],
  [id |-> R3112, category |-> "egress", enabled |-> TRUE,
   juris |-> BaseJurisdictions, version |-> "1.0", check |-> "exteriorDoorRequirements"],
  [id |-> EGarage, category |-> "energy", enabled |-> TRUE,
   juris |-> AllJurisdictions, version |-> "1.0.0", check |-> "garageSeparation"] >>

LibIds == {Library[i].id : i \in 1..Len(Library)}

LibraryObjects == [id \in LibIds |-> Library[IndexOfId(Library, id)]]

\* Rules a caller may add through registry.register: a replacement of a library
\* rule whose check throws, and a rule under an id that Colorado amends.
CustomRules == {
  [id |-> R3041, category |-> "room-minimums", enabled |-> TRUE,
   juris |-> BaseJurisdictions, version |-> "2.0-beta", check |-> "alwaysThrows"],
  [id |-> "colorado-wildfire-interface", category |-> "egress", enabled |-> TRUE,
   juris |-> {"colorado"}, version |-> "0.1", check |-> "placeholder"] }

\* coloradoAmendments, in export order.
ColoradoAmendments == <<
  [ruleId |-> R3043, hasOverride |-> TRUE,
   override |-> "coloradoCeilingHeight", version |-> "1.1-CO"],
  [ruleId |-> "colorado-wildfire-interface", hasOverride |-> TRUE,
   override |-> "wildfireInterfaceRequirements", version |-> "1.0-CO"],
  [ruleId |-> "colorado-high-altitude", hasOverride |-> TRUE,
   override |-> "highAltitudeRequirements", version |-> "1.0-CO"],
  [ruleId |-> "colorado-energy-efficiency", hasOverride |-> TRUE,
   override |-> "energyEfficiencyEnhancements", version |-> "1.0-CO"],
  [ruleId |-> "colorado-seismic-design", hasOverride |-> TRUE,
   override |-> "seismicDesignConsiderations", version |-> "1.0-CO"],
  [ruleId |-> "colorado-sb25-002-factory-built", hasOverride |-> TRUE,
   override |-> "sb25002FactoryBuiltCompliance", version |-> "1.0-SB25-002"],
  [ruleId |-> "colorado-prop-123-affordable", hasOverride |-> TRUE,
   override |-> "prop123AffordableHousing", version |-> "1.0-Prop123"] >>

(***************************************************************************)
(* Floor plans handed to the engine.  A plan carries the room and door     *)
(* lists the rules read; doorsIsArray = FALSE stands for a plan object     *)
(* whose doors property is missing.                                        *)
(***************************************************************************)
MinBedroomArea == 70
Bed(area) == [id |-> "bedroom-1", type |-> "bedroom", sqft |-> area, adjacentRoomIds |-> {}]
Living == [id |-> "living-1", type |-> "living", sqft |-> 216, adjacentRoomIds |-> {"garage-1"}]
Garage == [id |-> "garage-1", type |-> "garage", sqft |-> 450, adjacentRoomIds |-> {"living-1"}]

ExteriorDoor == [id |-> "front-door", type |-> "exterior"]
StandardDoor == [id |-> "door-auto-1", type |-> "standard"]

Plan(rooms, doors) == [rooms |-> rooms, doors |-> doors, doorsIsArray |-> TRUE]

Plans == {
  Plan(<<>>, <<ExteriorDoor>>),
  Plan(<<Bed(80)>>, <<ExteriorDoor>>),
  Plan(<<Bed(50)>>, <<>>),
  Plan(<<Bed(64), Living, Garage>>, <<ExteriorDoor, StandardDoor>>),
  Plan(<<Living, Garage>>, <<StandardDoor>>),
  [rooms |-> <<Bed(80)>>, doors |-> <<>>, doorsIsArray |-> FALSE] }

Contexts ==
  {[jurisdiction |-> j, wildfireInterfaceZone |-> FALSE] : j \in {"irc-base", "colorado", "california"}}
  \cup {[jurisdiction |-> "colorado", wildfireInterfaceZone |-> TRUE]}

\* RuleExecutionOptions; an absent list is the empty set.
NoOptions ==
  [includeRules |-> {}, excludeRules |-> {}, includeCategories |-> {},
   excludeCategories |-> {}, stopOnCritical |-> FALSE]

OptionSets == {
  NoOptions,
  [NoOptions EXCEPT !.stopOnCritical = TRUE],
  [NoOptions EXCEPT !.includeRules = {R3043, R3112}],
  [NoOptions EXCEPT !.includeRules = {R3043, R3041}, !.excludeRules = {R3041}],
  [NoOptions EXCEPT !.excludeCategories = {"energy"}, !.stopOnCritical = TRUE],
  [NoOptions EXCEPT !.includeCategories = {"room-minimums", "egress"},
                    !.excludeCategories = {"egress"}] }

(***************************************************************************)
(* The check functions of the rules.  A call either throws or returns a    *)
(* RuleResult; heights are in inches (8 ft = 96, 7 ft 6 in = 90).          *)
(***************************************************************************)
HabitableTypes ==
  {"primary_bed", "bedroom", "kitchen", "dining", "living", "family",
   "great_room", "office", "bonus", "theater", "gym"}

isHabitableRoom(room) == room.type \in HabitableTypes

isBedroom(room) == room.type = "primary_bed" \/ room.type = "bedroom"

isConditionedSpace(room) ==
  room.type \notin {"garage", "front_porch", "back_porch", "outdoor_living"}

Violation(prefix, suffix, severity, current, required) ==
  [id |-> <<prefix, suffix>>, severity |-> severity,
   currentValue |-> current, requiredValue |-> required]

Returned(ruleId, passed, violations, metadata) ==
  [threw |-> FALSE,
   result |-> [ruleId |-> ruleId, passed |-> passed,
               violations |-> violations, metadata |-> metadata]]

Thrown ==
  [threw |-> TRUE,
   result |-> [ruleId |-> "", passed |-> FALSE, violations |-> <<>>, metadata |-> ""]]

HasError(violations) == \E i \in 1..Len(violations) : violations[i].severity = "error"

minimumBedroomArea(plan) ==
  LET small == SelectSeq(plan.rooms,
                 LAMBDA room : isBedroom(room) /\ room.sqft < MinBedroomArea)
      v == [i \in 1..Len(small) |->
              Violation(small[i].id, "bedroom-area-violation", "error",
                        small[i].sqft, MinBedroomArea)]
  IN Returned(R3041, v = <<>>, v, "none")

CeilingHeightIn == 96
MinCeilingIn == 90
EfficientCeilingIn == 96

minimumCeilingHeight(plan) ==
  LET low == SelectSeq(plan.rooms,
               LAMBDA room : isHabitableRoom(room) /\ CeilingHeightIn < MinCeilingIn)
      v == [i \in 1..Len(low) |->
              Violation(low[i].id, "ceiling-height-violation", "error",
                        CeilingHeightIn, MinCeilingIn)]
  IN Returned(R3043, v = <<>>, v, "note")

coloradoCeilingHeight(plan) ==
  LET low == SelectSeq(plan.rooms,
               LAMBDA room : isHabitableRoom(room) /\ CeilingHeightIn < EfficientCeilingIn)
      v == [i \in 1..Len(low) |->
              IF CeilingHeightIn < MinCeilingIn
                THEN Violation(low[i].id, "co-ceiling-height-violation", "error",
                               CeilingHeightIn, MinCeilingIn)
                ELSE Violation(low[i].id, "co-ceiling-efficiency", "warning",
                               CeilingHeightIn, EfficientCeilingIn)]
  IN Returned(R3043, ~HasError(v), v, "coloradoAmendment")

exteriorDoorRequirements(plan) ==
  LET exteriorDoors == SelectSeq(plan.doors, LAMBDA d : d.type = "exterior")
      v == IF Len(exteriorDoors) = 0
             THEN <<Violation("", "no-exterior-door", "error", 0, 0)>>
             ELSE <<>>   \* every exterior door counts as adequate
  IN Returned(R3112, v = <<>>, v, "none")

garageSeparation(plan) ==
  LET garages == SelectSeq(plan.rooms,
                   LAMBDA garage :
                     /\ garage.type = "garage"
                     /\ \E i \in 1..Len(plan.rooms) :
                           /\ plan.rooms[i].id \in garage.adjacentRoomIds
                           /\ isConditionedSpace(plan.rooms[i]))
      v == [i \in 1..Len(garages) |->
              Violation("garage-adj-conditioned", garages[i].id, "warning", 0, 0)]
  IN Returned(EGarage, v = <<>>, v, "none")

wildfireInterfaceRequirements(plan, context) ==
  LET bedrooms == SelectSeq(plan.rooms, isBedroom)
      v == IF context.wildfireInterfaceZone
             THEN [i \in 1..Len(bedrooms) |->
                     Violation(bedrooms[i].id, "wui-egress", "warning", 0, 0)]
                  \o <<Violation("", "wui-defensible-space", "info", 0, 0)>>
             ELSE <<>>
  IN Returned("colorado-wildfire-interface", ~HasError(v), v, "coloradoAmendment")

\* rule.check(plan, context) for the check function named `check`
RunCheck(check, plan, context) ==
  CASE check = "minimumBedroomArea" -> minimumBedroomArea(plan)
    [] check = "minimumCeilingHeight" -> minimumCeilingHeight(plan)
    [] check = "coloradoCeilingHeight" -> coloradoCeilingHeight(plan)
    [] check = "exteriorDoorRequirements" -> exteriorDoorRequirements(plan)
    [] check = "garageSeparation" -> garageSeparation(plan)
    [] check = "wildfireInterfaceRequirements" -> wildfireInterfaceRequirements(plan, context)
    [] check = "placeholder" -> Returned("colorado-wildfire-interface", TRUE, <<>>, "none")
    [] check = "alwaysThrows" -> Thrown
    \* the remaining Colorado overrides read only context fields (snowLoad,
    \* seismicDesignCategory, jurisdictionParams) that the modelled contexts leave unset
    [] check = "highAltitudeRequirements" ->
         Returned("colorado-high-altitude", TRUE, <<>>, "coloradoAmendment")
    [] check = "energyEfficiencyEnhancements" ->
         Returned("colorado-energy-efficiency", TRUE, <<>>, "coloradoAmendment")
    [] check = "seismicDesignConsiderations" ->
         Returned("colorado-seismic-design", TRUE, <<>>, "coloradoAmendment")
    [] check = "sb25002FactoryBuiltCompliance" ->
         Returned("colorado-sb25-002-factory-built", TRUE, <<>>, "coloradoAmendment")
    [] check = "prop123AffordableHousing" ->
         Returned("colorado-prop-123-affordable", TRUE, <<>>, "coloradoAmendment")

(***************************************************************************)
(* SimpleRuleRegistry.  An entry either refers to the shared library       *)
(* object of its id (shared = TRUE; its fields are read from the library   *)
(* heap) or holds a rule object of its own (a clone, or a registered       *)
(* rule).                                                                  *)
(***************************************************************************)
SharedEntry(id) == [id |-> id, shared |-> TRUE, rule |-> LibraryObjects[id]]

OwnEntry(rule) == [id |-> rule.id, shared |-> FALSE, rule |-> rule]

\* the rule object an entry denotes, given the library heap
RuleOf(entry, library) == IF entry.shared THEN library[entry.id] ELSE entry.rule

\* new SimpleRuleRegistry(allRules): every library object registered by reference
InitialRegistry == [i \in 1..Len(Library) |-> SharedEntry(Library[i].id)]

\* Map.set(rule.id, rule): an existing key keeps its position, a new key is appended
register(reg, rule) ==
  LET idx == IndexOfId(reg, rule.id) IN
  IF idx = 0 THEN Append(reg, OwnEntry(rule))
             ELSE [reg EXCEPT ![idx] = OwnEntry(rule)]

replaceRule(reg, id, rule) == register(reg, rule)

getAllRules(reg, library) == [i \in 1..Len(reg) |-> RuleOf(reg[i], library)]

\* rule.enabled = enabled on the object the registry holds; st = [reg, lib]
setRuleEnabled(st, id, enabled) ==
  LET idx == IndexOfId(st.reg, id) IN
  IF idx = 0 THEN st
  ELSE IF st.reg[idx].shared
    THEN [st EXCEPT !.lib[id].enabled = enabled]
    ELSE [st EXCEPT !.reg[idx].rule.enabled = enabled]

(***************************************************************************)
(* DefaultComplianceEngine.                                                *)
(***************************************************************************)
\* variant of validatePlan that also demands a non-empty doors list
validatePlan_requiringDoors(plan) ==
  plan.doorsIsArray /\ Len(plan.rooms) > 0 /\ Len(plan.doors) > 0

validatePlan(plan) == plan.doorsIsArray /\ Len(plan.rooms) > 0

\* variant of ApplyAmendment that writes the override into the rule object the
\* registry holds instead of cloning it
ApplyAmendment_mutatingInPlace(st, amendment) ==
  LET idx == IndexOfId(st.reg, amendment.ruleId) IN
  IF idx = 0 \/ ~amendment.hasOverride THEN st
  ELSE IF st.reg[idx].shared
    THEN [st EXCEPT !.lib[amendment.ruleId].check = amendment.override,
                    !.lib[amendment.ruleId].version = amendment.version]
    ELSE [st EXCEPT !.reg[idx].rule.check = amendment.override,
                    !.reg[idx].rule.version = amendment.version]

\* one amendment applied to st = [reg, lib]
ApplyAmendment(st, amendment) ==
  LET idx == IndexOfId(st.reg, amendment.ruleId) IN
  IF idx = 0 \/ ~amendment.hasOverride THEN st
  ELSE LET existingRule == RuleOf(st.reg[idx], st.lib)
           clonedRule == [existingRule EXCEPT
                            !.check = amendment.override,
                            !.version = IF amendment.version # "" THEN amendment.version
                                                                  ELSE existingRule.version]
       IN [st EXCEPT !.reg = replaceRule(st.reg, amendment.ruleId, clonedRule)]

RECURSIVE ApplyAmendments(_, _)
ApplyAmendments(st, amendments) ==
  IF amendments = <<>> THEN st
  ELSE ApplyAmendments(ApplyAmendment(st, Head(amendments)), Tail(amendments))

applyJurisdictionAmendments(st, jurisdiction) ==
  IF jurisdiction = "colorado" THEN ApplyAmendments(st, ColoradoAmendments) ELSE st

\* variant of filterRules in which a non-empty includeRules list switches the
\* excludeRules list off
filterRules_includeWins(rules, options) ==
  LET enabledRules == SelectSeq(rules, LAMBDA r : r.enabled)
      f2 == IF options.includeRules # {}
              THEN SelectSeq(enabledRules, LAMBDA r : r.id \in options.includeRules)
              ELSE SelectSeq(enabledRules, LAMBDA r : r.id \notin options.excludeRules)
      f3 == IF options.includeCategories # {}
              THEN SelectSeq(f2, LAMBDA r : r.category \in options.includeCategories)
              ELSE f2
  IN SelectSeq(f3, LAMBDA r : r.category \notin options.excludeCategories)

filterRules(rules, options) ==
  LET enabledRules == SelectSeq(rules, LAMBDA r : r.enabled)
      f1 == IF options.includeRules # {}
              THEN SelectSeq(enabledRules, LAMBDA r : r.id \in options.includeRules)
              ELSE enabledRules
      f2 == IF options.excludeRules # {}
              THEN SelectSeq(f1, LAMBDA r : r.id \notin options.excludeRules)
              ELSE f1
      f3 == IF options.includeCategories # {}
              THEN SelectSeq(f2, LAMBDA r : r.category \in options.includeCategories)
              ELSE f2
  IN IF options.excludeCategories # {}
       THEN SelectSeq(f3, LAMBDA r : r.category \notin options.excludeCategories)
       ELSE f3

\* the rules engine.check iterates over
ApplicableRules(reg, library, context, options) ==
  filterRules(SelectSeq(getAllRules(reg, library),
                        LAMBDA r : context.jurisdiction \in r.juris),
              options)

\* the result pushed in the catch branch
ExecutionError(rule) ==
  [ruleId |-> rule.id, passed |-> FALSE,
   violations |-> <<Violation(rule.id, "execution-error", "error", 0, 0)>>,
   metadata |-> "error"]

\* hasStoppedOnCritical after one iteration that pushed `outcome`
StopsAfter(outcome, options) ==
  /\ ~outcome.threw
  /\ options.stopOnCritical
  /\ ~outcome.result.passed
  /\ HasError(outcome.result.violations)

RECURSIVE ExecuteRules_abortingOnThrow(_, _, _, _, _)
\* variant of the loop in which a throwing check ends the evaluation
ExecuteRules_abortingOnThrow(rules, plan, context, options, run) ==
  IF rules = <<>> \/ run.stopped THEN run
  ELSE LET rule == Head(rules)
           outcome == RunCheck(rule.check, plan, context)
           pushed == IF outcome.threw THEN ExecutionError(rule) ELSE outcome.result
       IN ExecuteRules_abortingOnThrow(Tail(rules), plan, context, options,
            [results |-> Append(run.results, pushed),
             evaluated |-> Append(run.evaluated, rule.id),
             stopped |-> outcome.threw \/ StopsAfter(outcome, options)])

RECURSIVE ExecuteRules(_, _, _, _, _)
\* the for loop of check; run = [results, evaluated, stopped]
ExecuteRules(rules, plan, context, options, run) ==
  IF rules = <<>> \/ run.stopped THEN run
  ELSE LET rule == Head(rules)
           outcome == RunCheck(rule.check, plan, context)
           pushed == IF outcome.threw THEN ExecutionError(rule) ELSE outcome.result
       IN ExecuteRules(Tail(rules), plan, context, options,
            [results |-> Append(run.results, pushed),
             evaluated |-> Append(run.evaluated, rule.id),
             stopped |-> StopsAfter(outcome, options)])

EmptyRun == [results |-> <<>>, evaluated |-> <<>>, stopped |-> FALSE]

\* engine.check on st = [reg, lib]: the outcome and the registry / library left behind
check(st, plan, context, options) ==
  IF ~validatePlan(plan)
    THEN [st |-> st, error |-> "Invalid floor plan format", applicable |-> <<>>,
          run |-> EmptyRun]
    ELSE LET amended == applyJurisdictionAmendments(st, context.jurisdiction)
             applicable == ApplicableRules(amended.reg, amended.lib, context, options)
         IN [st |-> amended, error |-> "",
             applicable |-> [i \in 1..Len(applicable) |-> applicable[i].id],
             run |-> ExecuteRules(applicable, plan, context, options, EmptyRun)]

(***************************************************************************)
(* State machine of the engine.                                            *)
(***************************************************************************)
NoResult == [ruleId |-> "", passed |-> FALSE, violations |-> <<>>, metadata |-> ""]

NoCall ==
  [kind |-> "none", engine |-> "", plan |-> Plan(<<>>, <<>>),
   context |-> [jurisdiction |-> "", wildfireInterfaceZone |-> FALSE],
   options |-> NoOptions, error |-> "", rules |-> <<>>, applicable |-> <<>>,
   results |-> <<>>, evaluated |-> <<>>, stopped |-> FALSE]

\* the number of violations of the severity over all results
CountSeverity(results, severity) ==
  SumSeq([i \in 1..Len(results) |->
            Cardinality({n \in 1..Len(results[i].violations) :
                           results[i].violations[n].severity = severity})])

\* a summary whose percentage is cut off instead of rounded
calculateSummary_truncating(results) ==
  LET passed == Len(SelectSeq(results, LAMBDA r : r.passed))
  IN [totalRules |-> Len(results), passed |-> passed, failed |-> Len(results) - passed,
      warnings |-> CountSeverity(results, "warning"),
      info |-> CountSeverity(results, "info"),
      compliancePercentage |->
        IF Len(results) > 0 THEN (100 * passed) \div Len(results) ELSE 0,
      criticalViolations |-> CountSeverity(results, "error"),
      skipped |-> 0]

\* calculateSummary; Math.round((passed / totalRules) * 100) is the
\* quotient rounded half up
calculateSummary(results) ==
  LET passed == Len(SelectSeq(results, LAMBDA r : r.passed))
  IN [totalRules |-> Len(results), passed |-> passed, failed |-> Len(results) - passed,
      warnings |-> CountSeverity(results, "warning"),
      info |-> CountSeverity(results, "info"),
      compliancePercentage |->
        IF Len(results) > 0 THEN (200 * passed + Len(results)) \div (2 * Len(results))
        ELSE 0,
      criticalViolations |-> CountSeverity(results, "error"),
      skipped |-> 0]

\* the call record of an engine.check that returned `out`; summary and
\* overallCompliance are those of the report
CallRecord(kind, e, plan, context, options, out) ==
  [kind |-> kind, engine |-> e, plan |-> plan, context |-> context, options |-> options,
   error |-> out.error, rules |-> getAllRules(out.st.reg, out.st.lib),
   applicable |-> out.applicable, results |-> out.run.results,
   evaluated |-> out.run.evaluated, stopped |-> out.run.stopped,
   summary |-> calculateSummary(out.run.results),
   overallCompliance |->
     \E summary \in {calculateSummary(out.run.results)} :
       summary.failed = 0 /\ summary.criticalViolations = 0]

\* the result reported for rule `id` in a list of results, NoResult when absent
ResultFor(results, id) ==
  IF \E i \in 1..Len(results) : results[i].ruleId = id
    THEN results[CHOOSE i \in 1..Len(results) : results[i].ruleId = id]
    ELSE NoResult

InitEngine ==
  /\ lib = LibraryObjects
  /\ registry = [e \in Engines |-> <<>>]
  /\ created = {}
  /\ lastCall = NoCall
  /\ firstIrc = [e \in Engines |-> NoResult]
  /\ coloradoRuns = FALSE

\* createComplianceEngine()
CreateEngine(e) ==
  /\ lastCall.kind = "none"
  /\ e \notin created
  /\ created' = created \cup {e}
  /\ registry' = [registry EXCEPT ![e] = InitialRegistry]
  /\ UNCHANGED <<layoutVars, briefVars, scoreVars, variationVars, lib, lastCall, firstIrc, coloradoRuns>>

\* engine.getRuleRegistry().register(rule)
Register(e, rule) ==
  /\ lastCall.kind = "none"
  /\ e \in created
  /\ registry' = [registry EXCEPT ![e] = register(registry[e], rule)]
  /\ UNCHANGED <<layoutVars, briefVars, scoreVars, variationVars, lib, created, lastCall, firstIrc, coloradoRuns>>

\* engine.getRuleRegistry().setRuleEnabled(id, enabled)
SetRuleEnabled(e, id, enabled) ==
  /\ lastCall.kind = "none"
  /\ e \in created
  /\ LET st == setRuleEnabled([reg |-> registry[e], lib |-> lib], id, enabled)
     IN /\ registry' = [registry EXCEPT ![e] = st.reg]
        /\ lib' = st.lib
  /\ UNCHANGED <<layoutVars, briefVars, scoreVars, variationVars, created, lastCall, firstIrc, coloradoRuns>>

\* engine.check(plan, context, options)
Check(e, plan, context, options) ==
  /\ lastCall.kind = "none"
  /\ e \in created
  /\ LET out == check([reg |-> registry[e], lib |-> lib], plan, context, options)
         r == ResultFor(out.run.results, R3043)
     IN /\ registry' = [registry EXCEPT ![e] = out.st.reg]
        /\ lib' = out.st.lib
        /\ lastCall' = CallRecord("check", e, plan, context, options, out)
        /\ firstIrc' = IF /\ context.jurisdiction = "irc-base"
                          /\ firstIrc[e] = NoResult
                          /\ r # NoResult
                         THEN [firstIrc EXCEPT ![e] = r]
                         ELSE firstIrc
  /\ UNCHANGED <<layoutVars, briefVars, scoreVars, variationVars, created, coloradoRuns>>

\* runComplianceCheck(plan, jurisdiction, options): a new engine for this one call
RunComplianceCheck(plan, jurisdiction, options) ==
  /\ lastCall.kind = "none"
  /\ LET context == [jurisdiction |-> jurisdiction, wildfireInterfaceZone |-> FALSE]
         out == check([reg |-> InitialRegistry, lib |-> lib], plan, context, options)
     IN /\ lib' = out.st.lib
        /\ lastCall' = CallRecord("run", "", plan, context, options, out)
        /\ coloradoRuns' = (coloradoRuns \/ (jurisdiction = "colorado" /\ out.error = ""))
  /\ UNCHANGED <<layoutVars, briefVars, scoreVars, variationVars, registry, created, firstIrc>>

\* the caller takes the report (or the error) of the call that returned
TakeReport ==
  /\ lastCall.kind # "none"
  /\ lastCall' = NoCall
  /\ UNCHANGED <<layoutVars, briefVars, scoreVars, variationVars, lib, registry, created, firstIrc, coloradoRuns>>

SetRuleEnabledIds == {R3041, R3043}

NextEngine ==
  \/ \E e \in Engines : CreateEngine(e)
  \/ \E e \in Engines, rule \in CustomRules : Register(e, rule)
  \/ \E e \in Engines, id \in SetRuleEnabledIds, enabled \in BOOLEAN :
       SetRuleEnabled(e, id, enabled)
  \/ \E e \in Engines, plan \in Plans, context \in Contexts, options \in OptionSets :
       Check(e, plan, context, options)
  \/ \E plan \in Plans, jurisdiction \in {"irc-base", "colorado"}, options \in OptionSets :
       RunComplianceCheck(plan, jurisdiction, options)
  \/ TakeReport

\* the engine runs while the layout pipeline is idle
InitEngineOnly == InitEngine /\ LayoutIdle /\ BriefIdle /\ ScoreIdle /\ VariationsIdle

SpecEngine ==
  InitEngineOnly /\ [][NextEngine]_vars

(***************************************************************************)
(* Properties of the compliance engine.                                    *)
(***************************************************************************)
Called == lastCall.kind # "none"
Reported == Called /\ lastCall.error = ""

\* the rule object registered under `id` when the call returned
CallRule(id) == lastCall.rules[IndexOfId(lastCall.rules, id)]

\* C1: on one engine instance, across checks under irc-base, colorado and
\* irc-base again, an irc-base check reports for R304.3 the result the first
\* irc-base check reported, and the engine's registry entry for R304.3 keeps
\* the library's check function and version.
C1_NoLeakOnReusedEngine ==
  \A e \in created :
    /\ LET rule == RuleOf(registry[e][IndexOfId(registry[e], R3043)], lib)
       IN /\ rule.check = LibraryObjects[R3043].check
          /\ rule.version = LibraryObjects[R3043].version
    /\ ( /\ lastCall.kind = "check"
         /\ lastCall.engine = e
         /\ lastCall.context.jurisdiction = "irc-base"
         /\ R3043 \in SeqToSet(lastCall.evaluated) )
       => ResultFor(lastCall.results, R3043) = firstIrc[e]

\* C2: runComplianceCheck leaves the library's rule objects unchanged, also
\* under colorado, and an irc-base runComplianceCheck reports for R304.3 what
\* the library's own ceiling-height check returns (the result of a fresh run).
C2_RunLeavesLibraryAlone ==
  [][ lastCall'.kind = "run" =>
        /\ lib' = lib
        /\ ( /\ lastCall'.context.jurisdiction = "irc-base"
             /\ R3043 \in SeqToSet(lastCall'.evaluated) )
           => ResultFor(lastCall'.results, R3043) = minimumCeilingHeight(lastCall'.plan).result
    ]_vars

\* an irc-base runComplianceCheck that evaluated R304.3 after a colorado one
C2_Witness ==
  /\ coloradoRuns
  /\ lastCall.kind = "run"
  /\ lastCall.context.jurisdiction = "irc-base"
  /\ R3043 \in SeqToSet(lastCall.evaluated)

\* the result is the one the catch branch synthesizes for rule `id`
IsExecutionError(result, id) ==
  /\ result.ruleId = id
  /\ result.passed = FALSE
  /\ Len(result.violations) = 1
  /\ result.violations[1].id = <<id, "execution-error">>
  /\ result.violations[1].severity = "error"

\* the check function registered under `id` throws
Throws(id) == CallRule(id).check = "alwaysThrows"

\* C3 (as stated): when the check of an evaluated rule throws, engine.check
\* does not throw, the rule's result is the synthetic execution error, and
\* every applicable rule is still evaluated.
C3_ThrowNeverCutsEvaluation ==
  Called /\ validatePlan(lastCall.plan) =>
    \A i \in 1..Len(lastCall.evaluated) :
      Throws(lastCall.evaluated[i]) =>
        /\ lastCall.error = ""
        /\ IsExecutionError(lastCall.results[i], lastCall.evaluated[i])
        /\ lastCall.evaluated = lastCall.applicable

\* C3 (amended): when the check of an evaluated rule throws, engine.check does
\* not throw and the rule's result is the synthetic execution error; when
\* stopOnCritical is not set every applicable rule is still evaluated and
\* reported.
C3_ThrowIsIsolated ==
  Called /\ validatePlan(lastCall.plan) =>
    \A i \in 1..Len(lastCall.evaluated) :
      Throws(lastCall.evaluated[i]) =>
        /\ lastCall.error = ""
        /\ Len(lastCall.results) = Len(lastCall.evaluated)
        /\ IsExecutionError(lastCall.results[i], lastCall.evaluated[i])
        /\ ~lastCall.options.stopOnCritical => lastCall.evaluated = lastCall.applicable

\* a check without stopOnCritical whose first rule threw and whose later rules ran
C3_Witness ==
  /\ Reported
  /\ ~lastCall.options.stopOnCritical
  /\ Len(lastCall.evaluated) >= 3
  /\ Throws(lastCall.evaluated[1])
  /\ IsExecutionError(lastCall.results[1], lastCall.evaluated[1])

C5_RejectsEmptyRoomsOrDoors ==
  Called =>
    /\ (Len(lastCall.plan.rooms) = 0 \/ Len(lastCall.plan.doors) = 0)
         => lastCall.error # "" /\ lastCall.evaluated = <<>>
    /\ lastCall.error = ""
         => Len(lastCall.plan.rooms) >= 1 /\ Len(lastCall.plan.doors) >= 1

\* C5 (amended): engine.check rejects, before any rule is evaluated, exactly
\* the plans whose rooms list is empty or whose doors property is not a list;
\* a plan with a room and an empty doors list gets a report.
C5_RejectsEmptyRoomsOnly ==
  Called =>
    /\ lastCall.error # "" <=> (Len(lastCall.plan.rooms) = 0 \/ ~lastCall.plan.doorsIsArray)
    /\ lastCall.error # "" =>
         /\ lastCall.error = "Invalid floor plan format"
         /\ lastCall.evaluated = <<>>
         /\ lastCall.results = <<>>

\* a report for a plan with a room and no door
C5_Witness ==
  /\ Reported
  /\ lastCall.plan.doorsIsArray
  /\ Len(lastCall.plan.doors) = 0
  /\ Len(lastCall.plan.rooms) >= 1
  /\ lastCall.results # <<>>

\* the selection the options and the context describe
Selected(rule, context, options) ==
  /\ rule.enabled
  /\ context.jurisdiction \in rule.juris
  /\ options.includeRules # {} => rule.id \in options.includeRules
  /\ rule.id \notin options.excludeRules
  /\ options.includeCategories # {} => rule.category \in options.includeCategories
  /\ rule.category \notin options.excludeCategories

\* C6: without stopOnCritical the evaluated rules are exactly the registry's
\* rules that are enabled, list the jurisdiction, are in includeRules when it
\* is non-empty, are not in excludeRules and pass the category filters; each
\* yields one result, in registry order.
C6_EvaluatedAreTheSelected ==
  Reported /\ ~lastCall.options.stopOnCritical =>
    LET selected == SelectSeq(lastCall.rules,
                      LAMBDA r : Selected(r, lastCall.context, lastCall.options))
    IN /\ lastCall.evaluated = [i \in 1..Len(selected) |-> selected[i].id]
       /\ Len(lastCall.results) = Len(selected)
       /\ \A i \in 1..Len(selected) : lastCall.results[i].ruleId = selected[i].id

\* a check with both rule lists set on a registry holding a disabled rule
C6_Witness ==
  /\ Reported
  /\ lastCall.options.includeRules # {}
  /\ lastCall.options.excludeRules # {}
  /\ \E i \in 1..Len(lastCall.rules) : ~lastCall.rules[i].enabled
  /\ lastCall.evaluated = <<R3043>>

ColoradoOnlyIds ==
  {"colorado-wildfire-interface", "colorado-high-altitude",
   "colorado-sb25-002-factory-built", "colorado-prop-123-affordable"}

\* C7: an unfiltered check under colorado reports a result for each
\* Colorado-only rule, although the base library has no rule of that id, and
\* a check under irc-base reports none of them.
C7_ColoradoOnlyRulesReported ==
  Reported /\ lastCall.options = NoOptions =>
    /\ lastCall.context.jurisdiction = "colorado" =>
         \A id \in ColoradoOnlyIds : ResultFor(lastCall.results, id) # NoResult
    /\ lastCall.context.jurisdiction = "irc-base" =>
         \A id \in ColoradoOnlyIds : ResultFor(lastCall.results, id) = NoResult

(***************************************************************************)
(* Layout pipeline: geometry shared by placement and circulation.          *)
(***************************************************************************)
Abs(n) == IF n < 0 THEN -n ELSE n
Max(a, b) == IF a >= b THEN a ELSE b
Min(a, b) == IF a <= b THEN a ELSE b

Rect(x, y, width, depth) == [x |-> x, y |-> y, width |-> width, depth |-> depth]

overlapLength(a1, a2, b1, b2) == Max(0, Min(a2, b2) - Max(a1, b1))

areAdjacent(a, b) ==
  /\ a.floor = b.floor
  /\ \/ /\ (a.x + a.width = b.x \/ b.x + b.width = a.x)
        /\ overlapLength(a.y, a.y + a.depth, b.y, b.y + b.depth) > 0
     \/ /\ (a.y + a.depth = b.y \/ b.y + b.depth = a.y)
        /\ overlapLength(a.x, a.x + a.width, b.x, b.x + b.width) > 0

\* twice the centre of a room or rect (centres are multiples of half a foot)
Center2X(r) == 2 * r.x + r.width
Center2Y(r) == 2 * r.y + r.depth

\* twice the Manhattan distance between the centres of two rooms
manhattan2(a, b) == Abs(Center2X(a) - Center2X(b)) + Abs(Center2Y(a) - Center2Y(b))

\* getExteriorWalls / roomExteriorWalls: the floor edges a rect lies on
getExteriorWalls(rect, c) ==
  (IF c.x = rect.x THEN {"west"} ELSE {})
  \cup (IF c.x + c.width = rect.x + rect.width THEN {"east"} ELSE {})
  \cup (IF c.y = rect.y THEN {"north"} ELSE {})
  \cup (IF c.y + c.depth = rect.y + rect.depth THEN {"south"} ELSE {})

(***************************************************************************)
(* Zoning: the regions of a floor and their anchors.  Percentages of a     *)
(* length are floored, as Math.floor(length * 0.46) is.                    *)
(***************************************************************************)
FloorPct(n, pct) == (n * pct) \div 100

oppositeDirection(d) ==
  CASE d = "north" -> "south" [] d = "south" -> "north"
    [] d = "east" -> "west" [] OTHER -> "east"

toFacing(entryFacing, rotateEntry) ==
  IF rotateEntry THEN oppositeDirection(entryFacing) ELSE entryFacing

splitFrontBack(rect, facing) ==
  IF facing \in {"north", "south"}
    THEN LET frontDepth == Max(8, FloorPct(rect.depth, 46))
             backDepth == Max(8, rect.depth - frontDepth)
         IN IF facing = "north"
              THEN [front |-> Rect(rect.x, rect.y, rect.width, frontDepth),
                    back |-> Rect(rect.x, rect.y + frontDepth, rect.width, backDepth)]
              ELSE [front |-> Rect(rect.x, rect.y + (rect.depth - frontDepth),
                                   rect.width, frontDepth),
                    back |-> Rect(rect.x, rect.y, rect.width, backDepth)]
    ELSE LET frontWidth == Max(8, FloorPct(rect.width, 46))
             backWidth == Max(8, rect.width - frontWidth)
         IN IF facing = "west"
              THEN [front |-> Rect(rect.x, rect.y, frontWidth, rect.depth),
                    back |-> Rect(rect.x + frontWidth, rect.y, backWidth, rect.depth)]
              ELSE [front |-> Rect(rect.x + (rect.width - frontWidth), rect.y,
                                   frontWidth, rect.depth),
                    back |-> Rect(rect.x, rect.y, backWidth, rect.depth)]

\* zone -> its region on a floor
buildZoneRegions(rect, facing, swapSocialPrivate) ==
  LET fb == splitFrontBack(rect, facing)
      serviceWidth == Max(6, FloorPct(rect.width, 24))
      stripDepth == Max(4, FloorPct(rect.depth, 12))
      stripWidth == Max(4, FloorPct(rect.width, 12))
  IN [social |-> IF swapSocialPrivate THEN fb.back ELSE fb.front,
      private |-> IF swapSocialPrivate THEN fb.front ELSE fb.back,
      service |-> Rect(rect.x + rect.width - serviceWidth, rect.y, serviceWidth, rect.depth),
      garage |-> Rect(rect.x, rect.y, Max(10, FloorPct(rect.width, 35)),
                      Max(10, FloorPct(rect.depth, 42))),
      circulation |-> Rect(rect.x + FloorPct(rect.width, 38), rect.y,
                           Max(4, FloorPct(rect.width, 16)), rect.depth),
      exterior |->
        CASE facing = "north" -> Rect(rect.x, rect.y, rect.width, stripDepth)
          [] facing = "south" ->
               Rect(rect.x, rect.y + rect.depth - stripDepth, rect.width, stripDepth)
          [] facing = "west" -> Rect(rect.x, rect.y, stripWidth, rect.depth)
          [] OTHER -> Rect(rect.x + rect.width - stripWidth, rect.y, stripWidth, rect.depth)]

\* anchorsFromRegions: twice the centre of every region, per floor and zone
anchorsFromRegions(floorRects, facing, swapSocialPrivate) ==
  [f \in DOMAIN floorRects |->
     LET regions == buildZoneRegions(floorRects[f], facing, swapSocialPrivate)
     IN [z \in DOMAIN regions |->
           [x2 |-> Center2X(regions[z]), y2 |-> Center2Y(regions[z])]]]

(***************************************************************************)
(* Placement (placeRooms).                                                 *)
(***************************************************************************)
RoundPct(n, pct) == (2 * n * pct + 100) \div 200   \* Math.round(n * pct / 100)
CeilDiv(a, b) == (a + b - 1) \div b                \* Math.ceil(a / b)

Scales == <<100, 95, 90, 85, 80, 75>>

RECURSIVE DimensionCandidatesFrom(_, _, _, _)
\* the loop of dimensionCandidates over the scales from index k on
DimensionCandidatesFrom(room, widthBias, k, candidates) ==
  IF k > Len(Scales) THEN candidates
  ELSE LET scaledSqft == Max(room.minSqft, RoundPct(room.targetSqft, Scales[k]))
           width == Max(room.minWidth, RoundPct(room.targetWidth + widthBias, Scales[k]))
           depth == Max(room.minDepth, CeilDiv(scaledSqft, width))
           a == [width |-> width, depth |-> depth, rotation |-> 0]
           b == [width |-> depth, depth |-> width, rotation |-> 90]
           withA == IF a.width * a.depth >= room.minSqft /\ a \notin SeqToSet(candidates)
                      THEN Append(candidates, a) ELSE candidates
           withB == IF b.width * b.depth >= room.minSqft /\ b \notin SeqToSet(withA)
                      THEN Append(withA, b) ELSE withA
       IN DimensionCandidatesFrom(room, widthBias, k + 1, withB)

\* candidates that ignore the minimum width and depth of the room
dimensionCandidates_ignoringMinimumSides(room, widthBias) ==
  DimensionCandidatesFrom([room EXCEPT !.minWidth = 1, !.minDepth = 1], widthBias, 1, <<>>)

dimensionCandidates(room, widthBias) == DimensionCandidatesFrom(room, widthBias, 1, <<>>)

zoneRank(zone) ==
  CASE zone = "garage" -> 0 [] zone = "social" -> 1 [] zone = "private" -> 2
    [] zone = "service" -> 3 [] zone = "circulation" -> 4 [] OTHER -> 5

\* the comparator of orderedRooms: negative when a sorts before b
CompareRooms(a, b, order) ==
  CASE order = "zone" ->
         IF zoneRank(a.zone) # zoneRank(b.zone) THEN zoneRank(a.zone) - zoneRank(b.zone)
         ELSE IF b.targetSqft # a.targetSqft THEN b.targetSqft - a.targetSqft
         ELSE b.priority - a.priority
    [] order = "reverse" ->
         IF a.targetSqft # b.targetSqft THEN a.targetSqft - b.targetSqft
         ELSE a.priority - b.priority
    [] order = "priority" ->
         IF b.priority # a.priority THEN b.priority - a.priority
         ELSE b.targetSqft - a.targetSqft
    [] OTHER ->
         IF b.targetSqft # a.targetSqft THEN b.targetSqft - a.targetSqft
         ELSE b.priority - a.priority

\* Array.prototype.sort is stable: ties keep the order of zoned.rooms
orderedRooms(zonedRooms, order) ==
  LET before(i, j) ==
        \/ CompareRooms(zonedRooms[i], zonedRooms[j], order) < 0
        \/ CompareRooms(zonedRooms[i], zonedRooms[j], order) = 0 /\ i < j
      rank(i) == 1 + Cardinality({j \in 1..Len(zonedRooms) : before(j, i)})
  IN [k \in 1..Len(zonedRooms) |->
        zonedRooms[CHOOSE i \in 1..Len(zonedRooms) : rank(i) = k]]

\* createGrid: an occupancy grid with no cell taken
createGrid(width, depth) == [width |-> width, depth |-> depth, taken |-> {}]

createFloorGrids(floorRects) ==
  [f \in DOMAIN floorRects |-> createGrid(floorRects[f].width, floorRects[f].depth)]

\* the grid cells <<col, row>> a rect at plan position (x, y) covers
CellsOf(floorRect, x, y, width, depth) ==
  {<<col, row>> : col \in (x - floorRect.x)..(x - floorRect.x + width - 1),
                  row \in (y - floorRect.y)..(y - floorRect.y + depth - 1)}

\* a free-rect test that looks at the bounds of the grid only
isRectFree_ignoringOccupancy(grid, floorRect, x, y, width, depth) ==
  /\ x - floorRect.x >= 0 /\ y - floorRect.y >= 0
  /\ x - floorRect.x + width <= grid.width /\ y - floorRect.y + depth <= grid.depth

isRectFree(grid, floorRect, x, y, width, depth) ==
  LET localX == x - floorRect.x
      localY == y - floorRect.y
  IN /\ localX >= 0 /\ localY >= 0
     /\ localX + width <= grid.width /\ localY + depth <= grid.depth
     /\ CellsOf(floorRect, x, y, width, depth) \cap grid.taken = {}

markRect(grid, floorRect, room) ==
  [grid EXCEPT !.taken = @ \cup CellsOf(floorRect, room.x, room.y, room.width, room.depth)]

\* zoneAnchorLookup: the anchor of a zone on a floor, as twice its coordinates
zoneAnchorLookup(zoneAnchors, zone, floor) ==
  IF floor \in DOMAIN zoneAnchors /\ zone \in DOMAIN zoneAnchors[floor]
    THEN <<zoneAnchors[floor][zone]>> ELSE <<>>

(***************************************************************************)
(* scoreCandidate.  Scores are only compared with each other, and all the  *)
(* candidates of one room share its targetSqft, so the model keeps         *)
(* 2 * max(targetSqft, 1) times the score of the code: every term is then  *)
(* an integer (distances are multiples of one half, the area penalty is a  *)
(* multiple of 60 / targetSqft).                                           *)
(***************************************************************************)
scoreCandidate(room, candidate, floorRect, placedRooms, zoneAnchors) ==
  LET exteriorWalls == getExteriorWalls(floorRect, candidate)
      anchor == zoneAnchorLookup(zoneAnchors, room.zone, candidate.floor)
      anchorScore ==
        IF anchor = <<>> THEN 0
        ELSE LET distance2 == Abs(anchor[1].x2 - Center2X(candidate))
                              + Abs(anchor[1].y2 - Center2Y(candidate))
             IN 2 * Max(0, 220 - 4 * distance2)
      wallScore ==
        IF room.needsExteriorWall
          THEN (IF exteriorWalls # {} THEN 2 * 260 ELSE -(2 * 400))
          ELSE 2 * 8 * Cardinality(exteriorWalls)
      existingScore(existing) ==
        IF existing.floor # candidate.floor THEN 0
        ELSE LET distance2 == manhattan2(existing, candidate)
                 touches == areAdjacent(existing, candidate)
             IN (IF existing.type \in room.adjacentTo
                   THEN (IF touches THEN 2 * 140 ELSE Max(0, 80 - 3 * distance2))
                   ELSE (IF touches THEN 2 * 12 ELSE 0))
                - (IF existing.type \in room.awayFrom
                     THEN (IF touches THEN 2 * 180 ELSE Max(0, 100 - 4 * distance2))
                     ELSE 0)
                + (IF existing.zone = room.zone THEN Max(0, 60 - 2 * distance2) ELSE 0)
      sqftDelta == Abs(candidate.width * candidate.depth - room.targetSqft)
  IN Max(room.targetSqft, 1)
       * (anchorScore + wallScore
          + SumSeq([i \in 1..Len(placedRooms) |-> existingScore(placedRooms[i])]))
     - 2 * 60 * sqftDelta

NoPlacement == [floor |-> 0]

\* candidate c is visited before candidate o by the loops of
\* bestPlacementForRoom: over the dimension candidates, then y, then x
VisitedBefore(c, o) ==
  \/ c.k < o.k
  \/ c.k = o.k /\ c.y < o.y
  \/ c.k = o.k /\ c.y = o.y /\ c.x < o.x

\* the candidate `best` ends up as after the loops have visited `candidates`:
\* it is replaced only by a strictly higher score, so the first of the
\* highest score stays
FirstOfBest(candidates) ==
  CHOOSE c \in candidates :
    \A o \in candidates : \/ c.score > o.score
                          \/ c.score = o.score /\ (c = o \/ VisitedBefore(c, o))

\* The loops of bestPlacementForRoom are folded row by row and dimension by
\* dimension; a value that is used more than once is bound by a quantifier
\* over a singleton set, so that it is computed once.

\* the free positions of dimension candidate k in the row at y, scored
ScoredRow(room, floorRect, grid, placedRooms, zoneAnchors, k, dims, y) ==
  {[k |-> k, x |-> x, y |-> y, width |-> dims.width, depth |-> dims.depth,
    floor |-> room.floor,
    score |-> scoreCandidate(room,
                             [x |-> x, y |-> y, width |-> dims.width,
                              depth |-> dims.depth, floor |-> room.floor],
                             floorRect, placedRooms, zoneAnchors)] :
     x \in {x \in floorRect.x..(floorRect.x + floorRect.width - dims.width) :
              isRectFree(grid, floorRect, x, y, dims.width, dims.depth)}}

\* the best of every row that has a free position, for dimension candidate k
BestOfRows(room, floorRect, grid, placedRooms, zoneAnchors, k, dims) ==
  UNION {IF row = {} THEN {} ELSE {FirstOfBest(row)} :
           row \in {ScoredRow(room, floorRect, grid, placedRooms, zoneAnchors, k, dims, y) :
                      y \in floorRect.y..(floorRect.y + floorRect.depth - dims.depth)}}

\* the best of every dimension candidate that fits the floor and has a free
\* position
BestOfDimensions(room, floorRect, grid, placedRooms, zoneAnchors, dimCandidates) ==
  UNION {IF rows = {} THEN {} ELSE {FirstOfBest(rows)} :
           rows \in {BestOfRows(room, floorRect, grid, placedRooms, zoneAnchors,
                                k, dimCandidates[k]) :
                       k \in {k \in 1..Len(dimCandidates) :
                                /\ dimCandidates[k].width <= floorRect.width
                                /\ dimCandidates[k].depth <= floorRect.depth}}}

\* the first candidate, in loop order, of the highest score; it carries the
\* index k of its dimension candidate
bestPlacementForRoom(room, floorRect, grid, placedRooms, zoneAnchors, widthBias) ==
  CHOOSE best \in
    {IF bests = {} THEN NoPlacement ELSE FirstOfBest(bests) :
       bests \in UNION {{BestOfDimensions(room, floorRect, grid, placedRooms, zoneAnchors,
                                          dimCandidates)} :
                          dimCandidates \in {dimensionCandidates(room, widthBias)}}} : TRUE

\* the placed room placeRooms builds from the best candidate
PlacedRoom(room, best, floorRect) ==
  [id |-> room.id, type |-> room.type, x |-> best.x, y |-> best.y,
   width |-> best.width, depth |-> best.depth, floor |-> best.floor,
   sqft |-> best.width * best.depth, zone |-> room.zone, adjacentRoomIds |-> <<>>,
   exteriorWalls |-> getExteriorWalls(floorRect, best),
   targetSqft |-> room.targetSqft, minSqft |-> room.minSqft,
   needsExteriorWall |-> room.needsExteriorWall]

\* ids of the rooms that touch room i, in the order the pair loop pushes them
populateAdjacency(rooms) ==
  [i \in 1..Len(rooms) |->
     LET touching == SelectSeq([j \in 1..Len(rooms) |-> j],
                               LAMBDA j : j # i /\ areAdjacent(rooms[i], rooms[j]))
     IN [rooms[i] EXCEPT !.adjacentRoomIds =
           [n \in 1..Len(touching) |-> rooms[touching[n]].id]]]

(***************************************************************************)
(* Circulation (ensureCirculation).                                        *)
(***************************************************************************)
\* the values of a list in first-occurrence order, as new Set(list) keeps them
Dedupe(list) ==
  LET firsts == SelectSeq([n \in 1..Len(list) |-> n],
                          LAMBDA n : \A e \in 1..(n - 1) : list[e] # list[n])
  IN [n \in 1..Len(firsts) |-> list[firsts[n]]]

\* rebuildAdjacency: every room keeps the ids it already lists and gains the
\* ids of the rooms it shares an edge with
rebuildAdjacency(rooms) ==
  [i \in 1..Len(rooms) |->
     LET kept == Dedupe(rooms[i].adjacentRoomIds)
         added == SelectSeq([j \in 1..Len(rooms) |-> j],
                            LAMBDA j : /\ j # i
                                       /\ areAdjacent(rooms[i], rooms[j])
                                       /\ rooms[j].id \notin SeqToSet(kept))
     IN [rooms[i] EXCEPT !.adjacentRoomIds =
           kept \o [n \in 1..Len(added) |-> rooms[added[n]].id]]]

\* the graph rebuildAdjacency returns: room id -> the ids that room lists
GraphOf(rooms) ==
  [id \in {rooms[i].id : i \in 1..Len(rooms)} |->
     SeqToSet(rooms[IndexOfId(rooms, id)].adjacentRoomIds)]

NoRoom == [id |-> "", floor |-> 0]

findEntryRoom(rooms) ==
  LET foyers == SelectSeq(rooms, LAMBDA r : r.type = "foyer")
      livings == SelectSeq(rooms, LAMBDA r : r.type = "living")
      socials == SelectSeq(rooms, LAMBDA r : r.zone = "social")
  IN IF foyers # <<>> THEN foyers[1]
     ELSE IF livings # <<>> THEN livings[1]
     ELSE IF socials # <<>> THEN socials[1]
     ELSE IF rooms # <<>> THEN rooms[1]
     ELSE NoRoom

Neighbors(graph, id) == IF id \in DOMAIN graph THEN graph[id] ELSE {}

RECURSIVE Visit(_, _, _)
\* breadth-first search: everything reached from the frontier along the
\* directed edges of the graph, never entering a node already visited
Visit(graph, frontier, visited) ==
  IF frontier = {} THEN visited
  ELSE LET next == UNION {Neighbors(graph, id) : id \in frontier} \ visited
       IN Visit(graph, next, visited \cup next)

\* bfs(graph, startId).visited
bfs(graph, startId) == Visit(graph, {startId}, {startId})

RECURSIVE ComponentsFrom(_, _, _, _, _)
ComponentsFrom(graph, keys, k, seen, components) ==
  IF k > Len(keys) THEN components
  ELSE IF keys[k] \in seen THEN ComponentsFrom(graph, keys, k + 1, seen, components)
  ELSE LET reached == Visit(graph, {keys[k]}, seen \cup {keys[k]})
       IN ComponentsFrom(graph, keys, k + 1, reached, Append(components, reached \ seen))

\* connectedComponents: the graph's keys are the room ids in room order
connectedComponents(graph, rooms) ==
  ComponentsFrom(graph, [i \in 1..Len(rooms) |-> rooms[i].id], 1, {}, <<>>)

\* a clamp whose lower bound wins when the bounds cross
clamp_lowerBoundWins(value, min, max) == Max(min, Min(max, value))

clamp(value, min, max) == Min(max, Max(min, value))

NoPair == <<>>

\* nearestPair: the first pair, in loop order, of the least centre distance
nearestPair(componentA, componentB) ==
  LET pairs == {[i |-> i, j |-> j, distance2 |-> manhattan2(componentA[i], componentB[j])] :
                  <<i, j>> \in {p \in (1..Len(componentA)) \X (1..Len(componentB)) :
                                  componentA[p[1]].floor = componentB[p[2]].floor}}
  IN CHOOSE pair \in
       UNION {IF ps = {} THEN {NoPair}
              ELSE {<<[a |-> componentA[best.i], b |-> componentB[best.j]]>> :
                      best \in {CHOOSE p \in ps :
                                  \A q \in ps : \/ p.distance2 < q.distance2
                                                \/ /\ p.distance2 = q.distance2
                                                   /\ \/ p.i < q.i
                                                      \/ p.i = q.i /\ p.j <= q.j}}
              : ps \in {pairs}} : TRUE

addDoor(doors, a, b, index) ==
  Append(doors, [id |-> "door-auto-" \o ToString(index), width |-> 3,
                 type |-> "standard", connectsRooms |-> <<a.id, b.id>>])

\* createHallwayBetween: a strip from one centre towards the other, along the
\* longer axis of the vector between them, clamped into the floor
createHallwayBetween(a, b, floorRect, hallwayIndex) ==
  LET dx2 == Center2X(b) - Center2X(a)
      dy2 == Center2Y(b) - Center2Y(a)
      horizontal == Abs(dx2) >= Abs(dy2)
      midX == (Center2X(a) + Center2X(b)) \div 4     \* Math.floor((ax + bx) / 2)
      midY == (Center2Y(a) + Center2Y(b)) \div 4
      width == Max(3, IF horizontal THEN Max(6, (Abs(dx2) + 1) \div 2) ELSE 3)
      depth == Max(6, IF horizontal THEN 3 ELSE Max(6, (Abs(dy2) + 1) \div 2))
      rawX == IF horizontal THEN Min(Center2X(a), Center2X(b)) \div 2 ELSE midX - 1
      rawY == IF horizontal THEN midY - 1 ELSE Min(Center2Y(a), Center2Y(b)) \div 2
      x == clamp(rawX, floorRect.x, floorRect.x + floorRect.width - width)
      y == clamp(rawY, floorRect.y, floorRect.y + floorRect.depth - depth)
  IN [id |-> "hallway-auto-" \o ToString(hallwayIndex), type |-> "hallway",
      x |-> x, y |-> y, width |-> width, depth |-> depth, floor |-> a.floor,
      sqft |-> width * depth, zone |-> "circulation",
      adjacentRoomIds |-> <<a.id, b.id>>,
      exteriorWalls |-> getExteriorWalls(floorRect, Rect(x, y, width, depth)),
      targetSqft |-> width * depth, minSqft |-> 18, needsExteriorWall |-> FALSE]

deadEndRooms(rooms) ==
  LET ends == SelectSeq(rooms, LAMBDA r : Len(r.adjacentRoomIds) <= 1 /\ r.type # "front_porch")
  IN [n \in 1..Len(ends) |-> ends[n].id]

(***************************************************************************)
(* Layout pipeline: the briefs the model runs.  Each is a normalized brief *)
(* as normalizeDesignBrief returns it (a foyer and a hallway are always    *)
(* added, stairs for two stories, and room areas are scaled to the         *)
(* brief's target), with the floor rectangles computeEnvelope gives it.    *)
(***************************************************************************)
ROOM_DEFAULTS ==
  [primary_bed |-> [minSqft |-> 180, targetSqft |-> 250, minWidth |-> 12, minDepth |-> 14,
                    needsExteriorWall |-> TRUE, needsPlumbing |-> FALSE, zone |-> "private"],
   bedroom |-> [minSqft |-> 100, targetSqft |-> 140, minWidth |-> 10, minDepth |-> 10,
                needsExteriorWall |-> TRUE, needsPlumbing |-> FALSE, zone |-> "private"],
   living |-> [minSqft |-> 150, targetSqft |-> 250, minWidth |-> 12, minDepth |-> 14,
               needsExteriorWall |-> TRUE, needsPlumbing |-> FALSE, zone |-> "social"],
   laundry |-> [minSqft |-> 30, targetSqft |-> 50, minWidth |-> 5, minDepth |-> 6,
                needsExteriorWall |-> FALSE, needsPlumbing |-> TRUE, zone |-> "service"],
   pantry |-> [minSqft |-> 16, targetSqft |-> 30, minWidth |-> 4, minDepth |-> 4,
               needsExteriorWall |-> FALSE, needsPlumbing |-> FALSE, zone |-> "service"],
   walk_in_closet |-> [minSqft |-> 25, targetSqft |-> 50, minWidth |-> 5, minDepth |-> 5,
                       needsExteriorWall |-> FALSE, needsPlumbing |-> FALSE,
                       zone |-> "private"],
   bathroom |-> [minSqft |-> 35, targetSqft |-> 50, minWidth |-> 5, minDepth |-> 7,
                 needsExteriorWall |-> FALSE, needsPlumbing |-> TRUE, zone |-> "private"],
   garage |-> [minSqft |-> 400, targetSqft |-> 576, minWidth |-> 20, minDepth |-> 20,
               needsExteriorWall |-> TRUE, needsPlumbing |-> FALSE, zone |-> "garage"],
   foyer |-> [minSqft |-> 25, targetSqft |-> 50, minWidth |-> 5, minDepth |-> 5,
              needsExteriorWall |-> TRUE, needsPlumbing |-> FALSE, zone |-> "social"],
   hallway |-> [minSqft |-> 20, targetSqft |-> 40, minWidth |-> 3, minDepth |-> 6,
                needsExteriorWall |-> FALSE, needsPlumbing |-> FALSE, zone |-> "circulation"],
   stairs |-> [minSqft |-> 30, targetSqft |-> 40, minWidth |-> 3, minDepth |-> 10,
               needsExteriorWall |-> FALSE, needsPlumbing |-> FALSE, zone |-> "circulation"]]

\* a room of a normalized brief; what the brief does not set comes from
\* ROOM_DEFAULTS
NormalizedRoom(type, floor, targetSqft, targetWidth, priority, adjacentTo, awayFrom) ==
  [id |-> type \o "-1", type |-> type, floor |-> floor,
   targetSqft |-> targetSqft, minSqft |-> ROOM_DEFAULTS[type].minSqft,
   minWidth |-> ROOM_DEFAULTS[type].minWidth, minDepth |-> ROOM_DEFAULTS[type].minDepth,
   targetWidth |-> targetWidth,
   needsExteriorWall |-> ROOM_DEFAULTS[type].needsExteriorWall,
   zone |-> ROOM_DEFAULTS[type].zone, priority |-> priority,
   adjacentTo |-> adjacentTo, awayFrom |-> awayFrom]

FoyerNeighbours == {"living", "family", "great_room", "hallway"}

\* { rooms: [laundry, pantry], targetSqft: 100, stories: 1,
\*   lot: 26 x 40, setbacks 5 / 5 / 5, entry facing east }
ServiceBrief ==
  [name |-> "service", stories |-> 1, entryFacing |-> "east",
   floorRects |-> [f \in {1} |-> Rect(7, 14, 12, 12)],
   rooms |-> <<NormalizedRoom("laundry", 1, 30, 5, 70, {}, {"primary_bed"}),
               NormalizedRoom("pantry", 1, 18, 4, 58, {"kitchen"}, {}),
               NormalizedRoom("foyer", 1, 30, 5, 230, FoyerNeighbours, {}),
               NormalizedRoom("hallway", 1, 22, 5, 162, {"foyer"}, {})>>]

\* { rooms: [walk_in_closet], targetSqft: 60, stories: 1,
\*   lot: 30 x 24, setbacks 4 / 3 / 4, entry facing north }
ClosetBrief ==
  [name |-> "closet", stories |-> 1, entryFacing |-> "north",
   floorRects |-> [f \in {1} |-> Rect(8, 6, 13, 12)],
   rooms |-> <<NormalizedRoom("walk_in_closet", 1, 25, 5, 110, {"primary_bed"}, {}),
               NormalizedRoom("foyer", 1, 25, 5, 190, FoyerNeighbours, {}),
               NormalizedRoom("hallway", 1, 20, 4, 126, {"foyer"}, {})>>]

\* { rooms: [walk_in_closet on floor 2, bathroom on floor 2], targetSqft: 160,
\*   stories: 2, lot: 24 x 24, setbacks 2 / 2 / 2, entry facing west }
TwoStoryBrief ==
  [name |-> "two-story", stories |-> 2, entryFacing |-> "west",
   floorRects |-> [f \in {1, 2} |-> Rect(6, 6, 12, 12)],
   rooms |-> <<NormalizedRoom("walk_in_closet", 2, 35, 6, 95, {"primary_bed"}, {}),
               NormalizedRoom("bathroom", 2, 35, 6, 95, {}, {}),
               NormalizedRoom("foyer", 1, 35, 6, 235, FoyerNeighbours, {}),
               NormalizedRoom("hallway", 1, 25, 5, 165, {"foyer", "stairs"}, {}),
               NormalizedRoom("stairs", 1, 30, 5, 170, {"hallway"}, {})>>]

\* { rooms: [laundry, pantry on floor 2], targetSqft: 100, stories: 2,
\*   lot: 24 x 24, setbacks 2 / 2 / 2, entry facing west }
UpstairsPantryBrief ==
  [name |-> "upstairs-pantry", stories |-> 2, entryFacing |-> "west",
   floorRects |-> [f \in {1, 2} |-> Rect(6, 6, 12, 12)],
   rooms |-> <<NormalizedRoom("laundry", 1, 30, 5, 90, {}, {"primary_bed"}),
               NormalizedRoom("pantry", 2, 16, 4, 70, {"kitchen"}, {}),
               NormalizedRoom("foyer", 1, 25, 5, 190, FoyerNeighbours, {}),
               NormalizedRoom("hallway", 1, 20, 4, 126, {"foyer", "stairs"}, {}),
               NormalizedRoom("stairs", 1, 30, 5, 140, {"hallway"}, {})>>]

Briefs == {ServiceBrief, ClosetBrief, TwoStoryBrief, UpstairsPantryBrief}

PlacementOrders == {"default", "zone", "priority", "reverse"}
WidthBiases == {-1, 0, 2}

\* ZoningOptions and PlacementOptions; the values are those the six layout
\* variations use
LayoutOptions ==
  [placementOrder : PlacementOrders, widthBias : WidthBiases,
   swapSocialPrivate : BOOLEAN, rotateEntry : BOOLEAN]

assignFloor(room, stories) ==
  IF stories = 1 THEN 1
  ELSE IF room.floor # 0 THEN room.floor
  ELSE IF room.type = "stairs" THEN 1
  ELSE IF room.zone = "private" THEN 2
  ELSE 1

assignZones(brief, options) ==
  [brief |-> brief.name,
   floorRects |-> brief.floorRects,
   rooms |-> [i \in 1..Len(brief.rooms) |->
                [brief.rooms[i] EXCEPT !.floor =
                   assignFloor([brief.rooms[i] EXCEPT !.floor = IF @ = 0 THEN 1 ELSE @],
                               brief.stories)]],
   zoneAnchors |-> anchorsFromRegions(brief.floorRects,
                                      toFacing(brief.entryFacing, options.rotateEntry),
                                      options.swapSocialPrivate),
   options |-> options]

(***************************************************************************)
(* Layout pipeline: the state machine.  placeRooms runs one room of its    *)
(* queue per step, ensureCirculation one repair iteration per step.        *)
(***************************************************************************)
MaxRepairIterations == 8

NoCirculation == [isFullyConnected |-> FALSE, deadEnds |-> <<>>]

InitLayout ==
  /\ \E brief \in Briefs, options \in LayoutOptions : zoned = assignZones(brief, options)
  /\ phase = "zoned"
  /\ queue = <<>>
  /\ floorGrids = <<>>
  /\ planRooms = <<>>
  /\ unplacedRoomIds = <<>>
  /\ planDoors = <<>>
  /\ warnings = <<>>
  /\ iteration = 0
  /\ circulation = <<>>
  /\ firstPass = <<>>

\* placeRooms, up to its loop
PlaceRoomsBegin ==
  /\ phase = "zoned"
  /\ phase' = "placing"
  /\ floorGrids' = createFloorGrids(zoned.floorRects)
  /\ queue' = orderedRooms(zoned.rooms, zoned.options.placementOrder)
  /\ UNCHANGED <<engineVars, briefVars, scoreVars, variationVars, firstPass,
                 zoned, planRooms, unplacedRoomIds, planDoors, warnings, iteration,
                 circulation>>

\* what the loop body finds for the room at the head of the queue
BestForHead ==
  LET room == Head(queue)
  IN IF room.floor \notin DOMAIN zoned.floorRects THEN NoPlacement
     ELSE bestPlacementForRoom(room, zoned.floorRects[room.floor], floorGrids[room.floor],
                               planRooms, zoned.zoneAnchors, zoned.options.widthBias)

\* one pass of the loop that places the room
PlaceRoom ==
  /\ phase = "placing" /\ queue # <<>>
  /\ \E best \in {BestForHead} :
       /\ best # NoPlacement
       /\ \E placed \in {PlacedRoom(Head(queue), best, zoned.floorRects[best.floor])} :
            /\ floorGrids' = [floorGrids EXCEPT ![placed.floor] =
                                markRect(@, zoned.floorRects[placed.floor], placed)]
            /\ planRooms' = Append(planRooms, placed)
  /\ queue' = Tail(queue)
  /\ UNCHANGED <<engineVars, briefVars, scoreVars, variationVars, firstPass,
                 zoned, phase, unplacedRoomIds, planDoors, warnings, iteration, circulation>>

\* a pass that reports the room without a warning
LeaveRoomUnplaced_withoutWarning ==
  /\ phase = "placing" /\ queue # <<>>
  /\ BestForHead = NoPlacement
  /\ unplacedRoomIds' = Append(unplacedRoomIds, Head(queue).id)
  /\ queue' = Tail(queue)
  /\ UNCHANGED <<engineVars, briefVars, scoreVars, variationVars, firstPass,
                 zoned, phase, floorGrids, planRooms, planDoors, iteration, circulation,
                 warnings>>

\* one pass of the loop that finds no place for the room
LeaveRoomUnplaced ==
  /\ phase = "placing" /\ queue # <<>>
  /\ BestForHead = NoPlacement
  /\ unplacedRoomIds' = Append(unplacedRoomIds, Head(queue).id)
  /\ warnings' = Append(warnings,
                        IF Head(queue).floor \notin DOMAIN zoned.floorRects
                          THEN "No floor geometry available"
                          ELSE "Unable to place room within floor envelope")
  /\ queue' = Tail(queue)
  /\ UNCHANGED <<engineVars, briefVars, scoreVars, variationVars, firstPass,
                 zoned, phase, floorGrids, planRooms, planDoors, iteration, circulation>>

\* placeRooms after its loop: the plan it returns
PlaceRoomsReturn ==
  /\ phase = "placing" /\ queue = <<>>
  /\ phase' = "placed"
  /\ planRooms' = populateAdjacency(planRooms)
  /\ planDoors' = <<>>
  /\ circulation' = NoCirculation
  /\ UNCHANGED <<engineVars, briefVars, scoreVars, variationVars, firstPass,
                 zoned, queue, floorGrids, unplacedRoomIds, warnings, iteration>>

\* what one pass of the repair loop decides once it has rebuilt the
\* adjacency lists, found the entry room and the components of the graph:
\* to leave the loop, or the two rooms to join
RepairDecision(rebuilt, graph, entryRoom, components) ==
  LET withEntry == SelectSeq(components, LAMBDA c : entryRoom.id \in c)
      withoutEntry == SelectSeq(components, LAMBDA c : entryRoom.id \notin c)
      leave(warning) == [kind |-> "break", rooms |-> rebuilt, warning |-> warning,
                         pair |-> NoPair]
  IN IF entryRoom = NoRoom THEN leave("")
     ELSE IF Cardinality(bfs(graph, entryRoom.id)) = Len(rebuilt) THEN leave("")
     ELSE IF withoutEntry = <<>> \/ withEntry = <<>> \/ withEntry[1] = {} THEN leave("")
     ELSE CHOOSE decision \in
            {IF pair = NoPair
               THEN leave("Unable to auto-connect all components because floors do not align.")
             ELSE IF pair[1].a.floor \notin DOMAIN zoned.floorRects
               THEN leave("Missing floor envelope; unable to auto-insert hallway.")
             ELSE [kind |-> "insert", rooms |-> rebuilt, warning |-> "", pair |-> pair] :
               pair \in {nearestPair(mainRooms, disconnectedRooms) :
                           mainRooms \in {SelectSeq(rebuilt, LAMBDA r : r.id \in withEntry[1])},
                           disconnectedRooms \in
                             {SelectSeq(rebuilt, LAMBDA r : r.id \in withoutEntry[1])}}} : TRUE

\* one pass of the repair loop of ensureCirculation up to the point where it
\* either leaves the loop or has chosen the two rooms to join
RepairStep(rooms) ==
  CHOOSE decision \in
    UNION {{RepairDecision(rebuilt, graph, entryRoom, components) :
              graph \in {GraphOf(rebuilt)},
              entryRoom \in {findEntryRoom(rebuilt)},
              components \in {connectedComponents(GraphOf(rebuilt), rebuilt)}} :
             rebuilt \in {rebuildAdjacency(rooms)}} : TRUE

\* hallwayCounter and doorCounter start one past the hallways and doors of
\* the plan and grow with every hallway and door the loop adds
hallwayCounter(rooms) == Len(SelectSeq(rooms, LAMBDA r : r.type = "hallway")) + 1
doorCounter(doors) == Len(doors) + 1

\* a repair iteration that inserts a hallway and its two doors
InsertHallway ==
  /\ phase \in {"placed", "circulating"}
  /\ iteration < MaxRepairIterations
  /\ \E step \in {RepairStep(planRooms)} :
       /\ step.kind = "insert"
       /\ \E a \in {step.pair[1].a}, b \in {step.pair[1].b} :
            \E hallway \in {createHallwayBetween(a, b, zoned.floorRects[a.floor],
                                                 hallwayCounter(step.rooms))} :
              /\ planRooms' = Append(step.rooms, hallway)
              /\ \E first \in {addDoor(planDoors, a, hallway, doorCounter(planDoors))} :
                   planDoors' = addDoor(first, hallway, b, doorCounter(first))
  /\ iteration' = iteration + 1
  /\ phase' = "circulating"
  /\ UNCHANGED <<engineVars, briefVars, scoreVars, variationVars, firstPass,
                 zoned, queue, floorGrids, unplacedRoomIds, warnings, circulation>>

\* a return that reports the plan connected as soon as it has an entry room
ReturnPlan_trustingEntry(rooms, warning) ==
  \E entryRoom \in {findEntryRoom(rooms)} :
    /\ planRooms' = rooms
    /\ warnings' = IF warning # "" THEN Append(warnings, warning) ELSE warnings
    /\ circulation' = [isFullyConnected |-> entryRoom # NoRoom,
                       deadEnds |-> deadEndRooms(rooms)]

\* the plan ensureCirculation returns when its loop has ended with `rooms`
ReturnPlan(rooms, warning) ==
  \E entryRoom \in {findEntryRoom(rooms)} :
    /\ planRooms' = rooms
    /\ warnings' = IF warning # "" THEN Append(warnings, warning) ELSE warnings
    /\ circulation' =
         [isFullyConnected |->
            /\ entryRoom # NoRoom
            /\ Cardinality(bfs(GraphOf(rooms), entryRoom.id)) = Len(rooms),
          deadEnds |-> deadEndRooms(rooms)]

\* the loop ends (by a break or after its last iteration) and
\* ensureCirculation returns the plan
EnsureCirculationReturn ==
  /\ phase \in {"placed", "circulating"}
  /\ IF iteration < MaxRepairIterations
       THEN \E step \in {RepairStep(planRooms)} :
              /\ step.kind = "break"
              /\ \E rooms \in {rebuildAdjacency(step.rooms)} : ReturnPlan(rooms, step.warning)
       ELSE \E rooms \in {rebuildAdjacency(planRooms)} : ReturnPlan(rooms, "")
  /\ phase' = "done"
  /\ UNCHANGED <<engineVars, briefVars, scoreVars, variationVars, firstPass,
                 zoned, queue, floorGrids, unplacedRoomIds, planDoors, iteration>>

\* ensureCirculation is called again, on the plan it has returned
EnsureCirculationAgain ==
  /\ phase = "done"
  /\ firstPass = <<>>
  /\ firstPass' = [rooms |-> planRooms, doors |-> planDoors, circulation |-> circulation]
  /\ iteration' = 0
  /\ phase' = "circulating"
  /\ UNCHANGED <<engineVars, briefVars, scoreVars, variationVars,
                 zoned, queue, floorGrids, planRooms, unplacedRoomIds, planDoors,
                 warnings, circulation>>

NextLayout ==
  \/ PlaceRoomsBegin
  \/ PlaceRoom
  \/ LeaveRoomUnplaced
  \/ PlaceRoomsReturn
  \/ InsertHallway
  \/ EnsureCirculationReturn
  \/ EnsureCirculationAgain

\* the layout pipeline runs while no engine has been created
InitLayoutOnly == InitEngine /\ InitLayout /\ BriefIdle /\ ScoreIdle /\ VariationsIdle

SpecLayout ==
  InitLayoutOnly /\ [][NextLayout]_vars

(***************************************************************************)
(* Layout pipeline: properties.                                            *)
(***************************************************************************)
\* the room's rectangle lies inside the footprint of its floor
InsideFloor(room) ==
  /\ room.floor \in DOMAIN zoned.floorRects
  /\ \E floorRect \in {zoned.floorRects[room.floor]} :
       /\ room.x >= floorRect.x
       /\ room.y >= floorRect.y
       /\ room.x + room.width <= floorRect.x + floorRect.width
       /\ room.y + room.depth <= floorRect.y + floorRect.depth

\* two rooms of one floor whose interiors share area
InteriorsOverlap(a, b) ==
  /\ a.floor = b.floor
  /\ overlapLength(a.x, a.x + a.width, b.x, b.x + b.width) > 0
  /\ overlapLength(a.y, a.y + a.depth, b.y, b.y + b.depth) > 0

AllInsideAndDisjoint ==
  /\ \A i \in 1..Len(planRooms) : InsideFloor(planRooms[i])
  /\ \A i, j \in 1..Len(planRooms) :
       i # j => ~InteriorsOverlap(planRooms[i], planRooms[j])

\* the grid cells of floor f that the rooms placed so far cover
CoveredCells(f) ==
  UNION {CellsOf(zoned.floorRects[f], planRooms[i].x, planRooms[i].y,
                 planRooms[i].width, planRooms[i].depth) :
           i \in {i \in 1..Len(planRooms) : planRooms[i].floor = f}}

\* C8: while placeRooms runs and in the plan it returns, every placed room
\* lies inside the footprint of its floor, no two placed rooms of one floor
\* have overlapping interiors, and after every placement step the occupancy
\* grid of each floor marks exactly the cells its placed rooms cover.
C8_PlacedRoomsInsideAndDisjoint ==
  phase \in {"placing", "placed"} =>
    /\ AllInsideAndDisjoint
    /\ \A f \in DOMAIN floorGrids : floorGrids[f].taken = CoveredCells(f)

\* placeRooms has returned a plan of at least three rooms, one of which was
\* placed edge to edge against another, and has left a room unplaced
C8_Witness ==
  /\ phase = "placed"
  /\ Len(planRooms) >= 3
  /\ unplacedRoomIds # <<>>
  /\ \E i, j \in 1..Len(planRooms) : i # j /\ areAdjacent(planRooms[i], planRooms[j])

\* ensureCirculation has returned from its call on the plan of placeRooms
FirstReturn == phase = "done" /\ firstPass = <<>>

\* ensureCirculation has returned from its call on its own first result
SecondReturn == phase = "done" /\ firstPass # <<>>

\* C9: in the plan ensureCirculation returns, every room, the inserted
\* hallways included, lies inside the footprint of its floor, and no two
\* rooms of one floor have overlapping interiors.
C9_CirculationKeepsRoomsDisjoint ==
  FirstReturn => AllInsideAndDisjoint

\* the plan placeRooms returned, recovered from the plan of ensureCirculation:
\* the loop appends one hallway per iteration and moves no room
PlacedInput == SubSeq(planRooms, 1, Len(planRooms) - iteration)

\* C10: for a placed plan with all its rooms on one floor and at most nine
\* connected components, ensureCirculation returns a plan whose rooms are
\* all reachable from the entry room: circulation.isFullyConnected is true.
C10_RepairConnectsOneFloorPlans ==
  (/\ FirstReturn
   /\ \A i, j \in 1..Len(planRooms) : planRooms[i].floor = planRooms[j].floor
   /\ \E input \in {populateAdjacency(PlacedInput)} :
        Len(connectedComponents(GraphOf(input), input)) <= MaxRepairIterations + 1)
    => circulation.isFullyConnected

RECURSIVE ReachableFrom(_, _)
\* the ids reached from `ids` by following the rooms' adjacentRoomIds
ReachableFrom(rooms, ids) ==
  LET next == ids \cup UNION {SeqToSet(rooms[i].adjacentRoomIds) :
                                i \in {i \in 1..Len(rooms) : rooms[i].id \in ids}}
  IN IF next = ids THEN ids ELSE ReachableFrom(rooms, next)

\* C11: in every plan ensureCirculation returns, if circulation.isFullyConnected
\* is true then every room of the plan is reached from the entry room (first
\* foyer, else first living room, else first social room, else rooms[0]) by
\* following the rooms' adjacentRoomIds.
C11_FullyConnectedMeansAllReachable ==
  (phase = "done" /\ circulation.isFullyConnected) =>
    \E entryRoom \in {findEntryRoom(planRooms)} :
      /\ entryRoom # NoRoom
      /\ \A i \in 1..Len(planRooms) :
           planRooms[i].id \in ReachableFrom(planRooms, {entryRoom.id})

\* ensureCirculation has returned a plan of three rooms or more and reports it
\* fully connected
C11_Witness ==
  /\ FirstReturn
  /\ circulation.isFullyConnected
  /\ Len(planRooms) >= 3

\* the room of planRooms with the given id, as a sequence of at most one room
RoomWithId(id) == SelectSeq(planRooms, LAMBDA r : r.id = id)

\* C12: for every door of the plan ensureCirculation returns, both ids in
\* connectsRooms are ids of rooms of the plan, and the two rooms are on one
\* floor, share an edge of positive length and list each other in
\* adjacentRoomIds.
C12_DoorsJoinEdgeAdjacentRooms ==
  FirstReturn =>
    \A n \in 1..Len(planDoors) :
      \E a \in {RoomWithId(planDoors[n].connectsRooms[1])},
         b \in {RoomWithId(planDoors[n].connectsRooms[2])} :
        /\ a # <<>> /\ b # <<>>
        /\ areAdjacent(a[1], b[1])
        /\ b[1].id \in SeqToSet(a[1].adjacentRoomIds)
        /\ a[1].id \in SeqToSet(b[1].adjacentRoomIds)

\* C13: ensureCirculation applied to its own result returns the same rooms,
\* doors and circulation: the second call inserts no hallway and no door.
C13_SecondCallChangesNothing ==
  SecondReturn =>
    /\ planRooms = firstPass.rooms
    /\ planDoors = firstPass.doors
    /\ circulation = firstPass.circulation

\* C14: one call runs at most 8 repair iterations, so it adds at most 8
\* hallways and 16 doors, and it always returns; when the plan is still
\* disconnected after the 8th iteration, a warning has been appended to the
\* warnings placeRooms left (one per unplaced room).
C14_ExhaustedRepairWarns ==
  /\ iteration <= MaxRepairIterations
  /\ FirstReturn =>
       /\ Len(planRooms) - Len(PlacedInput) <= MaxRepairIterations
       /\ Len(planDoors) <= 2 * MaxRepairIterations
       /\ (iteration = MaxRepairIterations /\ ~circulation.isFullyConnected)
            => Len(warnings) > Len(unplacedRoomIds)

(***************************************************************************)
(* Normalizer: normalizeDesignBrief as operators.  An optional number or   *)
(* floor that a brief leaves out is Undefined, an optional direction that  *)
(* it leaves out is NoDirection, a brief without a lot has lot = NoLot.    *)
(* Areas in briefs are whole numbers, so Math.round leaves them as they    *)
(* are.  Labels are not modelled, and every request leaves                *)
(* needsExteriorWall and needsPlumbing to the defaults of its type.        *)
(***************************************************************************)
Undefined == 0

NoDirection == ""

NoLot == <<>>

HARD_ADJACENCY ==
  << <<"primary_bed", "primary_bath">>, <<"primary_bed", "walk_in_closet">>,
     <<"kitchen", "dining">>, <<"foyer", "living">>, <<"mudroom", "garage">>,
     <<"pantry", "kitchen">> >>

ANTI_ADJACENCY ==
  << <<"primary_bed", "garage", -8>>, <<"bedroom", "garage", -6>>,
     <<"primary_bed", "kitchen", -5>>, <<"bedroom", "kitchen", -4>>,
     <<"office", "kitchen", -3>>, <<"theater", "kitchen", -4>>,
     <<"primary_bed", "laundry", -3>> >>

ZONE_PRIORITY ==
  [garage |-> 100, social |-> 80, private |-> 60, service |-> 40, circulation |-> 20,
   exterior |-> 10]

DEFAULT_LOT ==
  [maxWidth |-> 120, maxDepth |-> 120, setbackFront |-> 20, setbackSide |-> 6,
   setbackRear |-> 20, entryFacing |-> "south", garagePosition |-> "none"]

uniqRoomTypes(values) == Dedupe(values)

\* Math.round(Math.sqrt(n)) for a whole number n
RoundSqrt(n) ==
  CHOOSE w \in 0..n :
    /\ w = 0 \/ (2 * w - 1) * (2 * w - 1) <= 4 * n
    /\ 4 * n < (2 * w + 1) * (2 * w + 1)

computeDims(targetSqft, minWidth, minDepth) ==
  CHOOSE dims \in
    {[width |-> IF width * depth < targetSqft
                  THEN Max(width, CeilDiv(targetSqft, depth)) ELSE width,
      depth |-> depth] :
       <<width, depth>> \in
         {<<w, Max(minDepth, CeilDiv(targetSqft, w))>> :
            w \in {Max(minWidth, RoundSqrt(targetSqft))}}} : TRUE

cloneLot(briefLot) ==
  IF briefLot = NoLot THEN DEFAULT_LOT
  ELSE [maxWidth |-> Max(briefLot.maxWidth, 20),
        maxDepth |-> Max(briefLot.maxDepth, 20),
        setbackFront |-> Max(briefLot.setbackFront, 0),
        setbackSide |-> Max(briefLot.setbackSide, 0),
        setbackRear |-> Max(briefLot.setbackRear, 0),
        entryFacing |-> IF briefLot.entryFacing = NoDirection
                          THEN DEFAULT_LOT.entryFacing ELSE briefLot.entryFacing,
        garagePosition |-> IF briefLot.garagePosition = NoDirection
                             THEN DEFAULT_LOT.garagePosition ELSE briefLot.garagePosition]

\* the other type of every pair of the table that holds `type`, in table order
PartnersOf(table, type) ==
  LET hits == SelectSeq(table, LAMBDA pair : pair[1] = type \/ pair[2] = type)
  IN [n \in 1..Len(hits) |-> IF hits[n][1] = type THEN hits[n][2] ELSE hits[n][1]]

\* list.filter((type) => type !== own)
WithoutType(list, own) == SelectSeq(list, LAMBDA t : t # own)

\* list.filter((type) => !others.includes(type))
WithoutTypes(list, others) == SelectSeq(list, LAMBDA t : t \notin SeqToSet(others))

RoomId(type, ordinal) == type \o "-" \o ToString(ordinal)

\* the body of the map of toNormalizedRooms, for the n-th room of the brief
ToNormalizedRoom(request, n) ==
  LET room == request.rooms[n]
      defaults == ROOM_DEFAULTS[room.type]
      baseMinSqft == IF room.minSqft = Undefined THEN defaults.minSqft ELSE room.minSqft
      baseTargetSqft ==
        IF room.targetSqft = Undefined THEN defaults.targetSqft ELSE room.targetSqft
      minSqft == Max(1, baseMinSqft)
      targetSqft == Max(minSqft, baseTargetSqft)
      dims == computeDims(targetSqft, defaults.minWidth, defaults.minDepth)
      adjacentTo ==
        uniqRoomTypes(WithoutType(room.adjacentTo \o PartnersOf(HARD_ADJACENCY, room.type),
                                  room.type))
      awayFrom ==
        uniqRoomTypes(WithoutType(room.awayFrom \o PartnersOf(ANTI_ADJACENCY, room.type),
                                  room.type))
      ordinal == Cardinality({k \in 1..n : request.rooms[k].type = room.type})
  IN [id |-> RoomId(room.type, ordinal),
      type |-> room.type,
      targetSqft |-> targetSqft,
      minSqft |-> minSqft,
      minWidth |-> defaults.minWidth,
      minDepth |-> defaults.minDepth,
      targetWidth |-> dims.width,
      targetDepth |-> dims.depth,
      needsExteriorWall |-> defaults.needsExteriorWall,
      needsPlumbing |-> defaults.needsPlumbing,
      zone |-> defaults.zone,
      mustHave |-> room.mustHave,
      adjacentTo |-> adjacentTo,
      awayFrom |-> WithoutTypes(awayFrom, adjacentTo),
      floor |-> IF request.stories = 1 THEN 1 ELSE room.floor,
      priority |-> targetSqft + (IF room.mustHave THEN 120 ELSE 0)
                     + ZONE_PRIORITY[defaults.zone]]

toNormalizedRooms(request) ==
  [n \in 1..Len(request.rooms) |-> ToNormalizedRoom(request, n)]

\* rooms.filter((room) => room.type === type).length
CountOfType(rooms, type) == Cardinality({n \in 1..Len(rooms) : rooms[n].type = type})

hasRoom(rooms, type) == \E n \in 1..Len(rooms) : rooms[n].type = type

\* an addImplicitRoom that numbers the new room with the count of the rooms of
\* its type instead of the count plus one
addImplicitRoom_reusingOrdinal(acc, type, options) ==
  LET defaults == ROOM_DEFAULTS[type]
      targetSqft == Max(defaults.minSqft,
                        IF options.targetSqft = Undefined
                          THEN defaults.targetSqft ELSE options.targetSqft)
      dims == computeDims(targetSqft, defaults.minWidth, defaults.minDepth)
      id == RoomId(type, Max(1, CountOfType(acc.rooms, type)))
  IN [rooms |-> Append(acc.rooms,
                  [id |-> id, type |-> type, targetSqft |-> targetSqft,
                   minSqft |-> defaults.minSqft, minWidth |-> defaults.minWidth,
                   minDepth |-> defaults.minDepth, targetWidth |-> dims.width,
                   targetDepth |-> dims.depth,
                   needsExteriorWall |-> defaults.needsExteriorWall,
                   needsPlumbing |-> defaults.needsPlumbing, zone |-> defaults.zone,
                   mustHave |-> TRUE, adjacentTo |-> uniqRoomTypes(options.adjacentTo),
                   awayFrom |-> <<>>, floor |-> options.floor,
                   priority |-> targetSqft + ZONE_PRIORITY[defaults.zone]
                                  + (IF options.priorityBoost = Undefined
                                       THEN 40 ELSE options.priorityBoost)]),
      impliedRoomIds |-> Append(acc.impliedRoomIds, id)]

\* addImplicitRoom on acc = [rooms, impliedRoomIds]; every call of the code
\* passes mustHave: true and no minSqft
addImplicitRoom(acc, type, options) ==
  LET defaults == ROOM_DEFAULTS[type]
      targetSqft == Max(defaults.minSqft,
                        IF options.targetSqft = Undefined
                          THEN defaults.targetSqft ELSE options.targetSqft)
      dims == computeDims(targetSqft, defaults.minWidth, defaults.minDepth)
      id == RoomId(type, CountOfType(acc.rooms, type) + 1)
  IN [rooms |-> Append(acc.rooms,
                  [id |-> id, type |-> type, targetSqft |-> targetSqft,
                   minSqft |-> defaults.minSqft, minWidth |-> defaults.minWidth,
                   minDepth |-> defaults.minDepth, targetWidth |-> dims.width,
                   targetDepth |-> dims.depth,
                   needsExteriorWall |-> defaults.needsExteriorWall,
                   needsPlumbing |-> defaults.needsPlumbing, zone |-> defaults.zone,
                   mustHave |-> TRUE, adjacentTo |-> uniqRoomTypes(options.adjacentTo),
                   awayFrom |-> <<>>, floor |-> options.floor,
                   priority |-> targetSqft + ZONE_PRIORITY[defaults.zone]
                                  + (IF options.priorityBoost = Undefined
                                       THEN 40 ELSE options.priorityBoost)]),
      impliedRoomIds |-> Append(acc.impliedRoomIds, id)]

\* rooms.find((room) => room.type === type), for a type the rooms hold
FirstOfType(rooms, type) ==
  rooms[CHOOSE n \in 1..Len(rooms) :
          rooms[n].type = type /\ \A k \in 1..(n - 1) : rooms[k].type # type]

RECURSIVE AddClosets(_, _)
\* the closet loop of addImplicitRooms with `missing` iterations to go
AddClosets(acc, missing) ==
  IF missing <= 0 THEN acc
  ELSE AddClosets(addImplicitRoom(acc, "walk_in_closet",
                    [floor |-> FirstOfType(acc.rooms, "primary_bed").floor,
                     adjacentTo |-> <<"primary_bed">>, targetSqft |-> 42,
                     priorityBoost |-> Undefined]),
                  missing - 1)

\* an addImplicitRooms that adds stairs whatever the story count
addImplicitRooms_alwaysStairs(request, rooms) ==
  LET start == [rooms |-> rooms, impliedRoomIds |-> <<>>]
      withFoyer ==
        IF hasRoom(start.rooms, "foyer") THEN start
        ELSE addImplicitRoom(start, "foyer",
               [floor |-> 1, adjacentTo |-> <<"living", "family", "great_room">>,
                targetSqft |-> Undefined, priorityBoost |-> 60])
      withHallway ==
        IF hasRoom(withFoyer.rooms, "hallway") THEN withFoyer
        ELSE addImplicitRoom(withFoyer, "hallway",
               [floor |-> 1, adjacentTo |-> <<"foyer">>, targetSqft |-> 36,
                priorityBoost |-> 70])
      withClosets ==
        AddClosets(withHallway, CountOfType(withHallway.rooms, "primary_bed")
                                  - CountOfType(withHallway.rooms, "walk_in_closet"))
  IN IF ~hasRoom(withClosets.rooms, "stairs")
       THEN addImplicitRoom(withClosets, "stairs",
              [floor |-> 1, adjacentTo |-> <<"hallway">>, targetSqft |-> 40,
               priorityBoost |-> 80])
       ELSE withClosets

addImplicitRooms(request, rooms) ==
  LET start == [rooms |-> rooms, impliedRoomIds |-> <<>>]
      withFoyer ==
        IF hasRoom(start.rooms, "foyer") THEN start
        ELSE addImplicitRoom(start, "foyer",
               [floor |-> 1, adjacentTo |-> <<"living", "family", "great_room">>,
                targetSqft |-> Undefined, priorityBoost |-> 60])
      withHallway ==
        IF hasRoom(withFoyer.rooms, "hallway") THEN withFoyer
        ELSE addImplicitRoom(withFoyer, "hallway",
               [floor |-> 1, adjacentTo |-> <<"foyer">>, targetSqft |-> 36,
                priorityBoost |-> 70])
      withClosets ==
        AddClosets(withHallway, CountOfType(withHallway.rooms, "primary_bed")
                                  - CountOfType(withHallway.rooms, "walk_in_closet"))
  IN IF request.stories = 2 /\ ~hasRoom(withClosets.rooms, "stairs")
       THEN addImplicitRoom(withClosets, "stairs",
              [floor |-> 1, adjacentTo |-> <<"hallway">>, targetSqft |-> 40,
               priorityBoost |-> 80])
       ELSE withClosets

RECURSIVE ResolveFrom(_, _)
\* the second loop of resolveBidirectionalConflicts from the n-th room on
ResolveFrom(rooms, n) ==
  IF n > Len(rooms) THEN rooms
  ELSE
    LET room == rooms[n]
        nextAdjacent == WithoutType(room.adjacentTo, room.type)
        targets == SeqToSet(nextAdjacent)
        touched ==
          [k \in 1..Len(rooms) |->
             IF rooms[k].type \in targets
               THEN [rooms[k] EXCEPT
                       !.adjacentTo = IF room.type \in SeqToSet(@)
                                        THEN @ ELSE Append(@, room.type),
                       !.awayFrom = WithoutType(@, room.type)]
               ELSE rooms[k]]
        adjacentTo == uniqRoomTypes(nextAdjacent)
        awayFrom ==
          uniqRoomTypes(WithoutTypes(WithoutType(room.awayFrom, room.type), adjacentTo))
    IN ResolveFrom([touched EXCEPT ![n] = [room EXCEPT !.adjacentTo = adjacentTo,
                                                       !.awayFrom = awayFrom]],
                   n + 1)

resolveBidirectionalConflicts(rooms) == ResolveFrom(rooms, 1)

\* ensureValidFloors on the rooms and the warnings so far
ensureValidFloors(stories, rooms, notes) ==
  LET invalid(room) == stories # 1 /\ room.floor \notin {Undefined, 1, 2}
      flagged == SelectSeq(rooms, invalid)
  IN [rooms |-> [n \in 1..Len(rooms) |->
                   [rooms[n] EXCEPT !.floor = IF stories = 1 THEN 1
                                              ELSE IF invalid(rooms[n]) THEN Undefined
                                              ELSE @]],
      warnings |-> notes \o
                   [n \in 1..Len(flagged) |->
                      "Room " \o flagged[n].id
                        \o " had invalid floor assignment; floor preference removed."]]

\* Math.round(a / b) for whole numbers a >= 0, b > 0
RoundDiv(a, b) == (2 * a + b) \div (2 * b)

\* scaleRoomsToTargetSqft on the rooms and the warnings so far
scaleRoomsToTargetSqft(targetSqft, rooms, notes) ==
  LET totalSqft == SumSeq([n \in 1..Len(rooms) |-> rooms[n].targetSqft])
      minTotalSqft == SumSeq([n \in 1..Len(rooms) |-> rooms[n].minSqft])
      resized(room, sqft) ==
        LET dims == computeDims(sqft, room.minWidth, room.minDepth)
        IN [room EXCEPT !.targetSqft = sqft, !.targetWidth = dims.width,
                        !.targetDepth = dims.depth]
      rescaled(room) ==
        LET sized == resized(room, Max(room.minSqft,
                                       RoundDiv(room.targetSqft * targetSqft, totalSqft)))
        IN [sized EXCEPT !.priority = sized.targetSqft
                                        + (IF sized.mustHave THEN 120 ELSE 0)
                                        + ZONE_PRIORITY[sized.zone]]
  IN IF totalSqft <= 0 THEN [rooms |-> rooms, warnings |-> notes]
     ELSE IF minTotalSqft > targetSqft
       THEN [rooms |-> [n \in 1..Len(rooms) |-> resized(rooms[n], rooms[n].minSqft)],
             warnings |-> Append(notes,
                "Requested targetSqft " \o ToString(targetSqft)
                  \o " is below required minimum " \o ToString(minTotalSqft)
                  \o "; rooms retained at minimum sizes.")]
     ELSE IF 100 * Abs(totalSqft - targetSqft) < totalSqft     \* |1 - scale| < 0.01
       THEN [rooms |-> rooms, warnings |-> notes]
     ELSE [rooms |-> [n \in 1..Len(rooms) |-> rescaled(rooms[n])], warnings |-> notes]

normalizeDesignBrief(request) ==
  CHOOSE result \in
    {[targetSqft |-> Max(request.targetSqft, 1),
      stories |-> request.stories,
      style |-> request.style,
      lot |-> cloneLot(request.lot),
      rooms |-> scaled.rooms,
      metadata |-> [impliedRoomIds |-> implied.impliedRoomIds,
                    warnings |-> scaled.warnings]] :
       <<implied, scaled>> \in
         UNION {{<<withImplied, scaleRoomsToTargetSqft(request.targetSqft, floored.rooms,
                                                        floored.warnings)>> :
                   floored \in {ensureValidFloors(request.stories,
                                  resolveBidirectionalConflicts(withImplied.rooms), <<>>)}} :
                  withImplied \in {addImplicitRooms(request, toNormalizedRooms(request))}}} :
    TRUE

computeBuildableRect(normalized) ==
  Rect(normalized.lot.setbackSide, normalized.lot.setbackFront,
       Max(10, normalized.lot.maxWidth - normalized.lot.setbackSide * 2),
       Max(10, normalized.lot.maxDepth - normalized.lot.setbackFront
                 - normalized.lot.setbackRear))

\* Math.round(Math.sqrt(num / den)) for whole numbers num and den
RoundSqrtOf(num, den) ==
  CHOOSE w \in 0..(num + 1) :
    /\ w = 0 \/ (2 * w - 1) * (2 * w - 1) * den <= 4 * num
    /\ 4 * num < (2 * w + 1) * (2 * w + 1) * den

\* computeFootprint, for a buildable rectangle of whole feet (Math.floor
\* leaves its width and depth as they are)
computeFootprint(buildableRect, targetSqftPerFloor) ==
  LET maxWidth == buildableRect.width
      maxDepth == buildableRect.depth
      minWidth == 12
      minDepth == 12
      width0 == clamp(RoundSqrtOf(targetSqftPerFloor * buildableRect.width,
                                  buildableRect.depth), minWidth, maxWidth)
      depth0 == clamp(CeilDiv(targetSqftPerFloor, width0), minDepth, maxDepth)
      widthGain == Max(0, maxWidth - width0)
      depthGain == Max(0, maxDepth - depth0)
      short == width0 * depth0 < targetSqftPerFloor
      width == IF short /\ widthGain >= depthGain /\ widthGain > 0
                 THEN clamp(CeilDiv(targetSqftPerFloor, depth0), minWidth, maxWidth)
                 ELSE width0
      depth == IF short /\ ~(widthGain >= depthGain /\ widthGain > 0) /\ depthGain > 0
                 THEN clamp(CeilDiv(targetSqftPerFloor, width0), minDepth, maxDepth)
                 ELSE depth0
  IN Rect(buildableRect.x + ((buildableRect.width - width) \div 2),
          buildableRect.y + ((buildableRect.depth - depth) \div 2), width, depth)

\* Math.ceil(baseTargetSqftPerFloor * circulationFactor): the factor 1.08 or
\* 1.12 is a double a little off its decimal, so where the exact product is
\* a whole number the double product is that number or lies just above it,
\* and Math.ceil returns that number or the next one
targetSqftPerFloorOutcomes(normalized) ==
  LET programTargetSqft ==
        SumSeq([n \in 1..Len(normalized.rooms) |-> normalized.rooms[n].targetSqft])
      num == Max(Max(normalized.targetSqft, programTargetSqft), 100 * normalized.stories)
               * (IF Len(normalized.rooms) >= 10 THEN 112 ELSE 108)
      den == normalized.stories * 100
  IN IF num % den = 0 THEN {num \div den, num \div den + 1} ELSE {CeilDiv(num, den)}

EnvelopeOf(normalized, targetSqftPerFloor) ==
  CHOOSE result \in
    {[totalSqft |-> footprint.width * footprint.depth * normalized.stories,
      boundingWidth |-> footprint.width,
      boundingDepth |-> footprint.depth,
      streetFacing |-> normalized.lot.entryFacing,
      buildableRect |-> computeBuildableRect(normalized),
      footprint |-> footprint,
      floorRects |-> [f \in 1..normalized.stories |-> footprint],
      targetSqftPerFloor |-> targetSqftPerFloor] :
       footprint \in {computeFootprint(computeBuildableRect(normalized),
                                       targetSqftPerFloor)}} : TRUE

computeEnvelopeOutcomes(normalized) ==
  {EnvelopeOf(normalized, targetSqftPerFloor) :
     targetSqftPerFloor \in targetSqftPerFloorOutcomes(normalized)}

(***************************************************************************)
(* Normalizer: the briefs it is given, and the state machine               *)
(* normalizeDesignBrief, then computeEnvelope and assignZones with default *)
(* options on its result.                                                  *)
(***************************************************************************)
MaxRequestedRooms == 2

RoomTypes ==
  {"primary_bed", "walk_in_closet", "living", "laundry", "garage", "stairs", "foyer",
   "hallway"}

\* requests that leave areas and adjacency hints to the defaults
PlainRequests ==
  [type : RoomTypes, floor : {Undefined, 1, 2}, mustHave : BOOLEAN,
   minSqft : {Undefined}, targetSqft : {Undefined}, adjacentTo : {<<>>}, awayFrom : {<<>>}]

\* requests that set areas or hints
SizedRequests ==
  {[type |-> "laundry", floor |-> Undefined, mustHave |-> TRUE,
    minSqft |-> Undefined, targetSqft |-> 500, adjacentTo |-> <<>>, awayFrom |-> <<>>],
   [type |-> "living", floor |-> 2, mustHave |-> FALSE,
    minSqft |-> 12, targetSqft |-> 600,
    adjacentTo |-> <<"garage", "living">>, awayFrom |-> <<"garage", "laundry", "foyer">>]}

RoomRequests == PlainRequests \cup SizedRequests

TargetSqfts == {0, 80, 400, 1200}

Lots ==
  {NoLot,
   [maxWidth |-> 18, maxDepth |-> 60, setbackFront |-> -2, setbackSide |-> 3,
    setbackRear |-> 5, entryFacing |-> NoDirection, garagePosition |-> "left"],
   [maxWidth |-> 40, maxDepth |-> 31, setbackFront |-> 12, setbackSide |-> 15,
    setbackRear |-> 8, entryFacing |-> "east", garagePosition |-> "right"]}

\* a request without areas or hints
PlainRequest(type) ==
  [type |-> type, floor |-> Undefined, mustHave |-> FALSE,
   minSqft |-> Undefined, targetSqft |-> Undefined, adjacentTo |-> <<>>, awayFrom |-> <<>>]

\* briefs with two rooms of one type of which only one names a neighbour, the
\* neighbour being requested before or after them
HintedBriefs ==
  [targetSqft : {1200}, stories : {1}, style : {"ranch"}, lot : {NoLot},
   rooms : {<<PlainRequest("garage"),
              [PlainRequest("living") EXCEPT !.adjacentTo = <<"garage">>],
              PlainRequest("living")>>,
            <<[PlainRequest("living") EXCEPT !.adjacentTo = <<"garage">>],
              PlainRequest("living"),
              PlainRequest("garage")>>}]

DesignBriefs ==
  [targetSqft : TargetSqfts, stories : {1, 2}, style : {"ranch"}, lot : Lots,
   rooms : UNION {[1..n -> RoomRequests] : n \in 0..MaxRequestedRooms}]
    \cup HintedBriefs

InitBrief ==
  /\ designBrief \in DesignBriefs
  /\ normalizedBrief = <<>>
  /\ buildingEnvelope = <<>>
  /\ zonedBrief = <<>>

NormalizeDesignBrief ==
  /\ designBrief # <<>>
  /\ normalizedBrief = <<>>
  /\ normalizedBrief' = normalizeDesignBrief(designBrief)
  /\ UNCHANGED <<engineVars, layoutVars, scoreVars, variationVars, designBrief, buildingEnvelope, zonedBrief>>

\* computeEnvelope(normalized)
ComputeEnvelope ==
  /\ normalizedBrief # <<>>
  /\ buildingEnvelope = <<>>
  /\ buildingEnvelope' \in computeEnvelopeOutcomes(normalizedBrief)
  /\ UNCHANGED <<engineVars, layoutVars, scoreVars, variationVars, designBrief, normalizedBrief, zonedBrief>>

\* assignZones(normalized, envelope) with no options
AssignZonesOfBrief ==
  /\ buildingEnvelope # <<>>
  /\ zonedBrief = <<>>
  /\ zonedBrief' =
       assignZones([name |-> "brief",
                    stories |-> normalizedBrief.stories,
                    entryFacing |-> normalizedBrief.lot.entryFacing,
                    floorRects |-> buildingEnvelope.floorRects,
                    rooms |-> normalizedBrief.rooms],
                   [placementOrder |-> "default", widthBias |-> 0,
                    swapSocialPrivate |-> FALSE, rotateEntry |-> FALSE])
  /\ UNCHANGED <<engineVars, layoutVars, scoreVars, variationVars, designBrief, normalizedBrief,
                 buildingEnvelope>>

NextBrief ==
  \/ NormalizeDesignBrief
  \/ ComputeEnvelope
  \/ AssignZonesOfBrief

InitBriefOnly == InitEngine /\ LayoutIdle /\ InitBrief /\ ScoreIdle /\ VariationsIdle

SpecBrief ==
  InitBriefOnly /\ [][NextBrief]_vars

(***************************************************************************)
(* Normalizer: properties.                                                 *)
(***************************************************************************)
Normalized == normalizedBrief # <<>>

Requested == Len(designBrief.rooms)

\* C15: normalizeDesignBrief has a result for every brief, with one normalized room
\* per requested room, of the same type and in the same order, followed by the
\* injected rooms; a foyer and a hallway are present, there are at least as
\* many walk-in closets as primary bedrooms, the id of every injected room is
\* in metadata.impliedRoomIds, and no two rooms share an id.
C15_NormalizedRoomsExtendTheBrief ==
  /\ (designBrief # <<>> /\ ~Normalized) =>
       normalizeDesignBrief(designBrief).stories = designBrief.stories
  /\ Normalized =>
       /\ Len(normalizedBrief.rooms) >= Requested
       /\ \A n \in 1..Requested : normalizedBrief.rooms[n].type = designBrief.rooms[n].type
       /\ hasRoom(normalizedBrief.rooms, "foyer")
       /\ hasRoom(normalizedBrief.rooms, "hallway")
       /\ CountOfType(normalizedBrief.rooms, "walk_in_closet")
            >= CountOfType(normalizedBrief.rooms, "primary_bed")
       /\ \A n \in (Requested + 1)..Len(normalizedBrief.rooms) :
            normalizedBrief.rooms[n].id \in SeqToSet(normalizedBrief.metadata.impliedRoomIds)
       /\ \A n, k \in 1..Len(normalizedBrief.rooms) :
            normalizedBrief.rooms[n].id = normalizedBrief.rooms[k].id => n = k

\* a brief with two primary bedrooms and a foyer has been normalized: two
\* closets and a hallway were injected
C15_Witness ==
  /\ Normalized
  /\ Requested = 2
  /\ CountOfType(normalizedBrief.rooms, "primary_bed") = 2
  /\ Len(normalizedBrief.metadata.impliedRoomIds) >= 4

\* C16: in every normalized brief, every primary_bed room has a walk_in_closet
\* room whose floor is the floor of that primary bedroom.
C16_ClosetOnFloorOfEachPrimaryBedroom ==
  Normalized =>
    \A n \in 1..Len(normalizedBrief.rooms) :
      normalizedBrief.rooms[n].type = "primary_bed" =>
        \E k \in 1..Len(normalizedBrief.rooms) :
          /\ normalizedBrief.rooms[k].type = "walk_in_closet"
          /\ normalizedBrief.rooms[k].floor = normalizedBrief.rooms[n].floor

\* the brief asked for a room of this type
RequestedType(type) == \E n \in 1..Requested : designBrief.rooms[n].type = type

\* C17: the normalized brief has a stairs room exactly when the brief has two
\* stories.
C17_StairsIffTwoStories ==
  Normalized => (hasRoom(normalizedBrief.rooms, "stairs") <=> designBrief.stories = 2)

\* C17, as the code has it: the normalized brief has a stairs room exactly
\* when the brief has two stories or asks for a stairs room itself.
C17_StairsIffTwoStoriesOrRequested ==
  Normalized =>
    (hasRoom(normalizedBrief.rooms, "stairs")
       <=> (designBrief.stories = 2 \/ RequestedType("stairs")))

\* a two-story brief without stairs has been normalized and got its stairs
C17_Witness ==
  /\ Normalized
  /\ designBrief.stories = 2
  /\ ~RequestedType("stairs")
  /\ "stairs-1" \in SeqToSet(normalizedBrief.metadata.impliedRoomIds)

NormalizedTargets ==
  [n \in 1..Len(normalizedBrief.rooms) |-> normalizedBrief.rooms[n].targetSqft]

NormalizedMinimums ==
  [n \in 1..Len(normalizedBrief.rooms) |-> normalizedBrief.rooms[n].minSqft]

\* C18: after normalization, if the minimum areas sum to no more than the
\* brief's targetSqft, the target areas sum to the brief's targetSqft give or
\* take the largest minSqft of the rooms; otherwise exactly one warning was
\* emitted and every room's targetSqft is its minSqft.
C18_ScaledAreasMeetTheTarget ==
  Normalized =>
    IF SumSeq(NormalizedMinimums) <= designBrief.targetSqft
      THEN \E n \in 1..Len(normalizedBrief.rooms) :
             Abs(SumSeq(NormalizedTargets) - designBrief.targetSqft)
               <= normalizedBrief.rooms[n].minSqft
      ELSE /\ Len(normalizedBrief.metadata.warnings) = 1
           /\ NormalizedTargets = NormalizedMinimums

Zoned == zonedBrief # <<>>

\* C19: after assignZones, in a two-story brief none of whose requests names a
\* floor every private room is on floor 2 and every stairs, social, service
\* and garage room on floor 1; in a two-story brief a requested room that names
\* a floor is on it; in a one-story brief every room is on floor 1.
C19_FloorsFollowZones ==
  Zoned =>
    /\ (designBrief.stories = 2
        /\ \A n \in 1..Requested : designBrief.rooms[n].floor = Undefined) =>
         \A n \in 1..Len(zonedBrief.rooms) :
           /\ zonedBrief.rooms[n].zone = "private" => zonedBrief.rooms[n].floor = 2
           /\ (\/ zonedBrief.rooms[n].type = "stairs"
               \/ zonedBrief.rooms[n].zone \in {"social", "service", "garage"})
                => zonedBrief.rooms[n].floor = 1
    /\ designBrief.stories = 2 =>
         \A n \in 1..Requested :
           designBrief.rooms[n].floor # Undefined =>
             zonedBrief.rooms[n].floor = designBrief.rooms[n].floor
    /\ designBrief.stories = 1 =>
         \A n \in 1..Len(zonedBrief.rooms) : zonedBrief.rooms[n].floor = 1

(***************************************************************************)
(* Scoring: scorePlan as operators.  A score is kept in hundredths of a    *)
(* point, which is what clampScore rounds to; the number a clampScore call *)
(* is given is the fraction num / den with den > 0.  Distances between     *)
(* centres are doubled, as in placement.  Footprints have a whole-number   *)
(* diagonal.                                                               *)
(***************************************************************************)
SOFT_ADJACENCY ==
  << <<"kitchen", "living", 5>>, <<"kitchen", "family", 5>>,
     <<"kitchen", "outdoor_living", 4>>, <<"dining", "living", 4>>,
     <<"living", "front_porch", 3>>, <<"family", "back_porch", 3>>,
     <<"laundry", "primary_bed", 3>>, <<"laundry", "garage", 2>>,
     <<"office", "foyer", 2>> >>

\* Math.max(0, Math.min(100, Number((num / den).toFixed(2)))), in hundredths
clampScore(num, den) ==
  IF num <= 0 THEN 0 ELSE Min(10000, (200 * num + den) \div (2 * den))

\* a clampScore that only rounds
clampScore_unclamped(num, den) ==
  IF num <= 0 THEN -((200 * (-num) + den) \div (2 * den))
  ELSE (200 * num + den) \div (2 * den)

\* Math.hypot(footprint.width, footprint.depth) || 1
Diagonal(footprint) ==
  LET hypot == CHOOSE h \in 0..(footprint.width + footprint.depth) :
                 h * h = footprint.width * footprint.width
                           + footprint.depth * footprint.depth
  IN IF hypot = 0 THEN 1 ELSE hypot

typeRooms(plan, type) == SelectSeq(plan.rooms, LAMBDA room : room.type = type)

anyRoomsAdjacent(roomsA, roomsB) ==
  \E a \in 1..Len(roomsA) :
    \E n \in 1..Len(roomsA[a].adjacentRoomIds) :
      \E b \in 1..Len(roomsB) : roomsB[b].id = roomsA[a].adjacentRoomIds[n]

\* the pairs of an adjacency table both of whose types the plan has
PairsInPlan(plan, table) ==
  SelectSeq(table, LAMBDA pair : /\ typeRooms(plan, pair[1]) # <<>>
                                 /\ typeRooms(plan, pair[2]) # <<>>)

\* those of them that some room of the one type and some room of the other meet
PairsMet(plan, table) ==
  SelectSeq(PairsInPlan(plan, table),
            LAMBDA pair : anyRoomsAdjacent(typeRooms(plan, pair[1]),
                                           typeRooms(plan, pair[2])))

WeightOf(pairs) == SumSeq([n \in 1..Len(pairs) |-> Abs(pairs[n][3])])

scoreAdjacency(plan) ==
  LET hardTotal == Len(PairsInPlan(plan, HARD_ADJACENCY))
      hardSatisfied == Len(PairsMet(plan, HARD_ADJACENCY))
      softTotalWeight == WeightOf(PairsInPlan(plan, SOFT_ADJACENCY))
      softEarnedWeight == WeightOf(PairsMet(plan, SOFT_ADJACENCY))
      antiTotalWeight == WeightOf(PairsInPlan(plan, ANTI_ADJACENCY))
      antiPenalty == WeightOf(PairsMet(plan, ANTI_ADJACENCY))
      \* each score is 100 * n / d
      hn == IF hardTotal > 0 THEN hardSatisfied ELSE 1
      hd == IF hardTotal > 0 THEN hardTotal ELSE 1
      sn == IF softTotalWeight > 0 THEN softEarnedWeight ELSE 1
      sd == IF softTotalWeight > 0 THEN softTotalWeight ELSE 1
      an == IF antiTotalWeight > 0 THEN antiTotalWeight - antiPenalty ELSE 1
      ad == IF antiTotalWeight > 0 THEN antiTotalWeight ELSE 1
  IN clampScore(50 * hn * sd * ad + 30 * sn * hd * ad + 20 * an * hd * sd, hd * sd * ad)

\* the sum of manhattan(rooms[i], rooms[j]) over i < j, doubled
PairDistance2(rooms) ==
  SumSeq([i \in 1..Len(rooms) |->
            SumSeq([j \in 1..Len(rooms) |->
                      IF j > i THEN manhattan2(rooms[i], rooms[j]) ELSE 0])])

PairCount(rooms) == (Len(rooms) * (Len(rooms) - 1)) \div 2

\* clampScore(100 - (average distance of the pairs / diagonal) * 100)
ClosenessScore(rooms, diagonal) ==
  clampScore(100 * PairCount(rooms) * diagonal - 50 * PairDistance2(rooms),
             PairCount(rooms) * diagonal)

Zones == <<"social", "private", "service", "garage", "circulation", "exterior">>

scoreZoneCohesion(plan) ==
  LET diagonal == Diagonal(plan.envelope.footprint)
      roomsOf(zone) == SelectSeq(plan.rooms, LAMBDA room : room.zone = zone)
      counted == SelectSeq(Zones, LAMBDA zone : Len(roomsOf(zone)) > 1)
      weightedScore ==
        SumSeq([n \in 1..Len(counted) |->
                  ClosenessScore(roomsOf(counted[n]), diagonal) * Len(roomsOf(counted[n]))])
      totalWeight == SumSeq([n \in 1..Len(counted) |-> Len(roomsOf(counted[n]))])
  IN IF totalWeight > 0 THEN clampScore(weightedScore, 100 * totalWeight) ELSE 10000

scoreNaturalLight(plan) ==
  LET lit == SelectSeq(plan.rooms,
                       LAMBDA room : ~(\/ room.zone = "exterior"
                                       \/ room.type = "garage"
                                       \/ room.type = "hallway"))
      windowCount(room) ==
        Len(SelectSeq(plan.windows, LAMBDA window : window.roomId = room.id))
      roomScore(room) ==
        40 + (IF room.exteriorWalls # {} THEN 25 ELSE 0)
           + Min(35, windowCount(room) * 12)
           - (IF room.needsExteriorWall /\ room.exteriorWalls = {} THEN 45 ELSE 0)
           - (IF room.needsExteriorWall /\ windowCount(room) = 0 THEN 30 ELSE 0)
      total == SumSeq([n \in 1..Len(lit) |-> clampScore(roomScore(lit[n]), 1)])
  IN IF Len(lit) > 0 THEN clampScore(total, 100 * Len(lit)) ELSE 10000

scorePlumbingEfficiency(plan, walls) ==
  LET plumbingRooms == SelectSeq(plan.rooms, LAMBDA room : room.hasPlumbing)
      normalizedDistance ==
        ClosenessScore(plumbingRooms, Diagonal(plan.envelope.footprint))
      wetWallScore ==
        clampScore(100 * SumSeq(walls.wetWalls), Max(Len(plumbingRooms) * 6, 1))
  IN IF Len(plumbingRooms) <= 1 THEN 10000
     ELSE clampScore(65 * normalizedDistance + 35 * wetWallScore, 10000)

\* a scoreCirculation that returns its score unclamped
scoreCirculation_unclamped(plan) ==
  LET percent == plan.circulation.hallwayPercent
      base == (IF plan.circulation.isFullyConnected THEN 82 ELSE 35)
                - Len(plan.circulation.deadEnds) * 4
                + (IF Len(plan.circulation.mainPath) >= 4 THEN 8 ELSE 0)
  IN clampScore_unclamped(10 * percent.den * base
                            - 18 * Abs(percent.num - 12 * percent.den),
                          10 * percent.den)

\* hallwayPercent is the fraction percent.num / percent.den
scoreCirculation(plan) ==
  LET percent == plan.circulation.hallwayPercent
      base == (IF plan.circulation.isFullyConnected THEN 82 ELSE 35)
                - Len(plan.circulation.deadEnds) * 4
                + (IF Len(plan.circulation.mainPath) >= 4 THEN 8 ELSE 0)
  IN clampScore(10 * percent.den * base - 18 * Abs(percent.num - 12 * percent.den),
                10 * percent.den)

UsedSqft(plan) == SumSeq([n \in 1..Len(plan.rooms) |-> plan.rooms[n].sqft])

scoreSpaceUtilization(plan) ==
  LET availableSqft ==
        plan.envelope.footprint.width * plan.envelope.footprint.depth * plan.brief.stories
  IN IF availableSqft <= 0 THEN 0
     ELSE clampScore(500 * availableSqft - 22 * Abs(50 * UsedSqft(plan) - 41 * availableSqft),
                     5 * availableSqft)

NoisyTypes == {"garage", "kitchen", "family", "living"}

scorePrivacyGradient(plan) ==
  LET foyers == typeRooms(plan, "foyer")
      socialRooms == SelectSeq(plan.rooms, LAMBDA room : room.zone = "social")
      privateRooms == SelectSeq(plan.rooms, LAMBDA room : room.zone = "private")
      entryRoom == IF foyers # <<>> THEN foyers[1]
                   ELSE IF socialRooms # <<>> THEN socialRooms[1]
                   ELSE plan.rooms[1]
      distance2(rooms) == SumSeq([n \in 1..Len(rooms) |-> manhattan2(entryRoom, rooms[n])])
      noisy(room) ==
        Len(SelectSeq(room.adjacentRoomIds,
                      LAMBDA id : \E n \in 1..Len(plan.rooms) :
                                    /\ plan.rooms[n].id = id
                                    /\ plan.rooms[n].zone # "private"
                                    /\ plan.rooms[n].type \in NoisyTypes))
      penalty == 6 * SumSeq([n \in 1..Len(privateRooms) |-> noisy(privateRooms[n])])
      den == 2 * Len(privateRooms) * Len(socialRooms) * Diagonal(plan.envelope.footprint)
  IN IF plan.rooms = <<>> THEN 0
     ELSE IF socialRooms = <<>> \/ privateRooms = <<>> THEN 7000
     ELSE clampScore((65 - penalty) * den
                       + 60 * (distance2(privateRooms) * Len(socialRooms)
                                 - distance2(socialRooms) * Len(privateRooms)),
                     den)

scoreBuildability(plan, walls) ==
  LET wellShaped ==
        SelectSeq(plan.rooms,
                  LAMBDA room : 2 * Max(room.width, room.depth)
                                  <= 5 * Max(1, Min(room.width, room.depth)))
      count == Max(1, Len(plan.rooms))
      \* 40 * Math.min(35, (sharedWalls.length + walls.length / 4) * 0.7)
      complexityPenalty40 == Min(1400, 7 * (4 * Len(walls.sharedWalls) + Len(walls.walls)))
      fixed == 20 - Len(plan.unplacedRoomIds) * 12
                  + (IF plan.circulation.isFullyConnected THEN 12 ELSE -12)
  IN clampScore(3200 * Len(wellShaped) + 40 * count * fixed - count * complexityPenalty40,
                40 * count)

scoreSqftAccuracy(plan) ==
  IF plan.brief.targetSqft <= 0 THEN 0
  ELSE clampScore(100 * plan.brief.targetSqft
                    - 180 * Abs(UsedSqft(plan) - plan.brief.targetSqft),
                  plan.brief.targetSqft)

SubScores ==
  {"adjacencySatisfaction", "zoneCohesion", "naturalLight", "plumbingEfficiency",
   "circulationQuality", "spaceUtilization", "privacyGradient", "overallBuildability"}

scorePlan(plan, walls) ==
  CHOOSE score \in
    {[overall |-> clampScore(adjacencySatisfaction + zoneCohesion + naturalLight
                               + plumbingEfficiency + circulationQuality
                               + spaceUtilization + privacyGradient
                               + overallBuildability, 800),
      adjacencySatisfaction |-> adjacencySatisfaction,
      zoneCohesion |-> zoneCohesion,
      naturalLight |-> naturalLight,
      plumbingEfficiency |-> plumbingEfficiency,
      circulationQuality |-> circulationQuality,
      spaceUtilization |-> spaceUtilization,
      privacyGradient |-> privacyGradient,
      overallBuildability |-> overallBuildability,
      adjacencyScore |-> adjacencySatisfaction,
      circulation |-> circulationQuality,
      privacy |-> privacyGradient,
      buildability |-> overallBuildability,
      sqftAccuracy |-> scoreSqftAccuracy(plan)] :
       adjacencySatisfaction \in {scoreAdjacency(plan)},
       zoneCohesion \in {scoreZoneCohesion(plan)},
       naturalLight \in {scoreNaturalLight(plan)},
       plumbingEfficiency \in {scorePlumbingEfficiency(plan, walls)},
       circulationQuality \in {scoreCirculation(plan)},
       spaceUtilization \in {scoreSpaceUtilization(plan)},
       privacyGradient \in {scorePrivacyGradient(plan)},
       overallBuildability \in {scoreBuildability(plan, walls)}} : TRUE

\* The mean of the eight sub-scores is a double: when its third decimal is
\* exactly 5, value.toFixed(2) rounds the double nearest to it, which lies on
\* either side of the tie, so either hundredth is an outcome.
overallOutcomes(sum) ==
  IF sum % 8 = 4 THEN {sum \div 8, sum \div 8 + 1} ELSE {clampScore(sum, 800)}

SumOfEight(score) ==
  score.adjacencySatisfaction + score.zoneCohesion + score.naturalLight
    + score.plumbingEfficiency + score.circulationQuality + score.spaceUtilization
    + score.privacyGradient + score.overallBuildability

scorePlanOutcomes(plan, walls) ==
  UNION {{[score EXCEPT !.overall = overall] :
            overall \in overallOutcomes(SumOfEight(score))} :
           score \in {scorePlan(plan, walls)}}

(***************************************************************************)
(* Scoring: the plans and wall analyses scorePlan is given, and the state  *)
(* machine.  The rooms of a plan are as placeRooms leaves them: inside the *)
(* footprint, interiors disjoint, sqft = width * depth, adjacentRoomIds    *)
(* the rooms that share an edge.                                           *)
(***************************************************************************)
ScoredRoom(id, type, rect, exteriorWalls, hasPlumbing, adjacentRoomIds) ==
  [id |-> id, type |-> type, x |-> rect.x, y |-> rect.y, width |-> rect.width,
   depth |-> rect.depth, floor |-> 1, sqft |-> rect.width * rect.depth,
   zone |-> ROOM_DEFAULTS[type].zone, adjacentRoomIds |-> adjacentRoomIds,
   exteriorWalls |-> exteriorWalls, hasPlumbing |-> hasPlumbing,
   needsExteriorWall |-> ROOM_DEFAULTS[type].needsExteriorWall]

\* a one-floor house on a 30 x 40 footprint
HouseRooms ==
  <<ScoredRoom("living-1", "living", Rect(0, 0, 14, 16), {"north", "west"}, FALSE,
               <<"foyer-1", "hallway-1", "primary_bed-1">>),
    ScoredRoom("foyer-1", "foyer", Rect(14, 0, 6, 6), {"north"}, FALSE,
               <<"living-1", "laundry-1", "hallway-1">>),
    ScoredRoom("laundry-1", "laundry", Rect(20, 0, 10, 12), {"north", "east"}, TRUE,
               <<"foyer-1">>),
    ScoredRoom("hallway-1", "hallway", Rect(14, 6, 4, 10), {}, FALSE,
               <<"living-1", "foyer-1", "bathroom-1">>),
    ScoredRoom("primary_bed-1", "primary_bed", Rect(0, 16, 14, 14), {"west"}, FALSE,
               <<"living-1", "bathroom-1", "walk_in_closet-1">>),
    ScoredRoom("bathroom-1", "bathroom", Rect(14, 16, 6, 8), {}, TRUE,
               <<"hallway-1", "primary_bed-1", "walk_in_closet-1">>),
    ScoredRoom("walk_in_closet-1", "walk_in_closet", Rect(14, 24, 6, 6), {}, FALSE,
               <<"primary_bed-1", "bathroom-1">>)>>

\* three service rooms on a 12 x 16 footprint, the hallway long and thin
ServiceRooms ==
  <<ScoredRoom("foyer-1", "foyer", Rect(0, 0, 5, 5), {"north", "west"}, FALSE,
               <<"hallway-1">>),
    ScoredRoom("laundry-1", "laundry", Rect(7, 0, 5, 6), {"north", "east"}, TRUE, <<>>),
    ScoredRoom("hallway-1", "hallway", Rect(0, 5, 3, 11), {"west", "south"}, FALSE,
               <<"foyer-1">>)>>

\* a garage against a primary bedroom, no foyer, on a 30 x 40 footprint
GarageRooms ==
  <<ScoredRoom("garage-1", "garage", Rect(0, 0, 20, 20), {"north", "west"}, FALSE,
               <<"living-1", "primary_bed-1", "laundry-1">>),
    ScoredRoom("living-1", "living", Rect(20, 0, 10, 10), {"north", "east"}, FALSE,
               <<"garage-1", "primary_bed-1">>),
    ScoredRoom("primary_bed-1", "primary_bed", Rect(20, 10, 10, 14), {"east"}, FALSE,
               <<"garage-1", "living-1">>),
    ScoredRoom("laundry-1", "laundry", Rect(0, 20, 6, 8), {"west"}, TRUE,
               <<"garage-1">>),
    ScoredRoom("bathroom-1", "bathroom", Rect(24, 33, 6, 7), {"east", "south"}, TRUE,
               <<>>)>>

Layouts ==
  {[footprint |-> Rect(0, 0, 30, 40), rooms |-> HouseRooms],
   [footprint |-> Rect(0, 0, 12, 16), rooms |-> ServiceRooms],
   [footprint |-> Rect(0, 0, 30, 40), rooms |-> GarageRooms]}

WindowsPerRoom == {0, 1, 3}

\* `count` windows for every room that lies on an exterior wall
WindowsOf(rooms, count) ==
  LET windowed == SelectSeq(rooms, LAMBDA room : room.exteriorWalls # {})
  IN [n \in 1..(Len(windowed) * count) |->
        [roomId |-> windowed[((n - 1) \div count) + 1].id]]

\* hallwayPercent as ensureCirculation computes it, as a fraction
hallwayPercentOf(rooms) ==
  LET hallways == SelectSeq(rooms, LAMBDA room : room.type = "hallway")
      hallwaySqft == SumSeq([n \in 1..Len(hallways) |-> hallways[n].sqft])
      totalSqft == SumSeq([n \in 1..Len(rooms) |-> rooms[n].sqft])
  IN IF totalSqft > 0 THEN [num |-> 100 * hallwaySqft, den |-> totalSqft]
     ELSE [num |-> 0, den |-> 1]

DeadEndLists == {<<>>, <<"laundry-1", "bathroom-1", "walk_in_closet-1">>}

MainPaths == {<<>>, <<"foyer-1", "hallway-1", "bathroom-1", "walk_in_closet-1">>}

UnplacedLists == {<<>>, <<"office-1", "pantry-1">>}

\* a WallAnalysis: `walls` and `sharedWalls` by their ids, `wetWalls` by
\* their lengths
WallAnalyses ==
  {[walls |-> <<>>, sharedWalls |-> <<>>, wetWalls |-> <<>>],
   [walls |-> [n \in 1..16 |-> n], sharedWalls |-> [n \in 1..6 |-> n],
    wetWalls |-> <<6, 4>>],
   [walls |-> [n \in 1..120 |-> n], sharedWalls |-> [n \in 1..40 |-> n],
    wetWalls |-> <<10, 8, 8, 6>>]}

BriefTargets == {1, 1000}

PlacedPlans ==
  {[brief |-> [targetSqft |-> target, stories |-> stories],
    envelope |-> [footprint |-> layout.footprint],
    rooms |-> layout.rooms,
    windows |-> WindowsOf(layout.rooms, count),
    circulation |-> [isFullyConnected |-> connected, deadEnds |-> deadEnds,
                     mainPath |-> mainPath,
                     hallwayPercent |-> hallwayPercentOf(layout.rooms)],
    unplacedRoomIds |-> unplaced] :
     layout \in Layouts, target \in BriefTargets, stories \in {1, 2},
     count \in WindowsPerRoom, connected \in BOOLEAN, deadEnds \in DeadEndLists,
     mainPath \in MainPaths, unplaced \in UnplacedLists}

InitScore ==
  /\ scoreArgs \in [plan : PlacedPlans, walls : WallAnalyses]
  /\ planScore = <<>>

ScorePlan ==
  /\ scoreArgs # <<>>
  /\ planScore = <<>>
  /\ planScore' \in scorePlanOutcomes(scoreArgs.plan, scoreArgs.walls)
  /\ UNCHANGED <<engineVars, layoutVars, briefVars, variationVars, scoreArgs>>

NextScore == ScorePlan

InitScoreOnly == InitEngine /\ LayoutIdle /\ BriefIdle /\ InitScore /\ VariationsIdle

SpecScore ==
  InitScoreOnly /\ [][NextScore]_vars

(***************************************************************************)
(* Scoring: properties.                                                    *)
(***************************************************************************)
Scored == planScore # <<>>

EightSum ==
  planScore.adjacencySatisfaction + planScore.zoneCohesion + planScore.naturalLight
    + planScore.plumbingEfficiency + planScore.circulationQuality
    + planScore.spaceUtilization + planScore.privacyGradient
    + planScore.overallBuildability

\* C20: every score scorePlan returns has its eight sub-scores and its overall
\* score between 0 and 100 (here 0 and 10000 hundredths), and overall is within
\* 0.01 of the mean of the eight sub-scores.
C20_ScoresInRangeAndOverallIsMean ==
  Scored =>
    /\ \A name \in SubScores \cup {"overall"} : planScore[name] \in 0..10000
    /\ Abs(8 * planScore.overall - EightSum) <= 8

\* a plan has been scored whose circulation score was clamped to 0, whose
\* space-utilization score lies strictly inside the range, and whose mean had
\* to be rounded
C20_Witness ==
  /\ Scored
  /\ planScore.circulationQuality = 0
  /\ planScore.spaceUtilization \in 1..9999
  /\ EightSum % 8 # 0

(***************************************************************************)
(* Layout pipeline: the doors of the plan.                                 *)
(***************************************************************************)
ExteriorDoors(doors) == {n \in 1..Len(doors) : doors[n].type = "exterior"}

\* C21: every plan that placeRooms followed by ensureCirculation produces
\* contains exactly one door of type exterior.
C21_ExactlyOneExteriorDoor ==
  FirstReturn => Cardinality(ExteriorDoors(planDoors)) = 1

(***************************************************************************)
(* Envelope: properties.                                                   *)
(***************************************************************************)
Enveloped == buildingEnvelope # <<>>

RectInside(inner, outer) ==
  /\ inner.x >= outer.x
  /\ inner.y >= outer.y
  /\ inner.x + inner.width <= outer.x + outer.width
  /\ inner.y + inner.depth <= outer.y + outer.depth

\* C22: the envelope computeEnvelope returns for a normalized brief has a
\* buildable rectangle of width max(10, lot width - 2 x side setback) and depth
\* max(10, lot depth - front setback - rear setback) with origin (side setback,
\* front setback), and a footprint that lies inside the buildable rectangle.
C22_FootprintInsideBuildableRect ==
  Enveloped =>
    /\ \E lot \in {normalizedBrief.lot} :
         /\ buildingEnvelope.buildableRect.x = lot.setbackSide
         /\ buildingEnvelope.buildableRect.y = lot.setbackFront
         /\ buildingEnvelope.buildableRect.width
              = (IF lot.maxWidth - 2 * lot.setbackSide > 10
                   THEN lot.maxWidth - 2 * lot.setbackSide ELSE 10)
         /\ buildingEnvelope.buildableRect.depth
              = (IF lot.maxDepth - lot.setbackFront - lot.setbackRear > 10
                   THEN lot.maxDepth - lot.setbackFront - lot.setbackRear ELSE 10)
    /\ RectInside(buildingEnvelope.footprint, buildingEnvelope.buildableRect)

\* an envelope has been computed on a lot whose buildable rectangle is
\* narrower and shallower than the 12 ft footprint minimum
C22_Witness ==
  /\ Enveloped
  /\ buildingEnvelope.buildableRect.width < 12
  /\ buildingEnvelope.buildableRect.depth < 12
  /\ buildingEnvelope.footprint.width = buildingEnvelope.buildableRect.width

(***************************************************************************)
(* Variations (generateVariations): six runs of the layout pipeline on one *)
(* brief and envelope, each with its own options.  placeRooms and the      *)
(* repair loop of ensureCirculation are the actions of the layout pipeline.*)
(***************************************************************************)
VARIATIONS_mirrorBeforeSwap ==
  <<[name |-> "base-greedy", mirrorX |-> FALSE, mirrorY |-> FALSE,
     swapSocialPrivate |-> FALSE, rotateEntry |-> FALSE,
     placementOrder |-> "default", widthBias |-> 0],
    [name |-> "swap-zones", mirrorX |-> FALSE, mirrorY |-> FALSE,
     swapSocialPrivate |-> TRUE, rotateEntry |-> FALSE,
     placementOrder |-> "zone", widthBias |-> 0],
    [name |-> "mirror-x", mirrorX |-> TRUE, mirrorY |-> FALSE,
     swapSocialPrivate |-> FALSE, rotateEntry |-> FALSE,
     placementOrder |-> "default", widthBias |-> 0],
    [name |-> "rotate-entry", mirrorX |-> FALSE, mirrorY |-> FALSE,
     swapSocialPrivate |-> FALSE, rotateEntry |-> TRUE,
     placementOrder |-> "priority", widthBias |-> 0],
    [name |-> "proportion-wide", mirrorX |-> FALSE, mirrorY |-> FALSE,
     swapSocialPrivate |-> FALSE, rotateEntry |-> FALSE,
     placementOrder |-> "default", widthBias |-> 2],
    [name |-> "reverse-order-mirror-y", mirrorX |-> FALSE, mirrorY |-> TRUE,
     swapSocialPrivate |-> FALSE, rotateEntry |-> FALSE,
     placementOrder |-> "reverse", widthBias |-> -1]>>

\* the `variations` of generateVariations; an option an entry leaves out is
\* false
VARIATIONS ==
  <<[name |-> "base-greedy", mirrorX |-> FALSE, mirrorY |-> FALSE,
     swapSocialPrivate |-> FALSE, rotateEntry |-> FALSE,
     placementOrder |-> "default", widthBias |-> 0],
    [name |-> "mirror-x", mirrorX |-> TRUE, mirrorY |-> FALSE,
     swapSocialPrivate |-> FALSE, rotateEntry |-> FALSE,
     placementOrder |-> "default", widthBias |-> 0],
    [name |-> "swap-zones", mirrorX |-> FALSE, mirrorY |-> FALSE,
     swapSocialPrivate |-> TRUE, rotateEntry |-> FALSE,
     placementOrder |-> "zone", widthBias |-> 0],
    [name |-> "rotate-entry", mirrorX |-> FALSE, mirrorY |-> FALSE,
     swapSocialPrivate |-> FALSE, rotateEntry |-> TRUE,
     placementOrder |-> "priority", widthBias |-> 0],
    [name |-> "proportion-wide", mirrorX |-> FALSE, mirrorY |-> FALSE,
     swapSocialPrivate |-> FALSE, rotateEntry |-> FALSE,
     placementOrder |-> "default", widthBias |-> 2],
    [name |-> "reverse-order-mirror-y", mirrorX |-> FALSE, mirrorY |-> TRUE,
     swapSocialPrivate |-> FALSE, rotateEntry |-> FALSE,
     placementOrder |-> "reverse", widthBias |-> -1]>>

MirrorWall(wall, mirrorX, mirrorY) ==
  IF mirrorX /\ wall = "east" THEN "west"
  ELSE IF mirrorX /\ wall = "west" THEN "east"
  ELSE IF mirrorY /\ wall = "north" THEN "south"
  ELSE IF mirrorY /\ wall = "south" THEN "north"
  ELSE wall

mirroredRoom(room, floorRects, mirrorX, mirrorY) ==
  IF room.floor \notin DOMAIN floorRects THEN room
  ELSE LET floorRect == floorRects[room.floor]
       IN [room EXCEPT
             !.x = IF mirrorX
                     THEN floorRect.x + floorRect.width - (room.x - floorRect.x) - room.width
                     ELSE @,
             !.y = IF mirrorY
                     THEN floorRect.y + floorRect.depth - (room.y - floorRect.y) - room.depth
                     ELSE @,
             !.exteriorWalls = {MirrorWall(wall, mirrorX, mirrorY) : wall \in @}]

\* the rooms of mirrorPlan(plan, mirrorX, mirrorY)
mirrorPlan(rooms, floorRects, mirrorX, mirrorY) ==
  IF ~mirrorX /\ ~mirrorY THEN rooms
  ELSE [n \in 1..Len(rooms) |-> mirroredRoom(rooms[n], floorRects, mirrorX, mirrorY)]

\* WINDOW_RULES, the window count of each preset; a type without a preset
\* has count 0 here
WINDOW_RULES ==
  [primary_bed |-> 2, bedroom |-> 1, living |-> 2, family |-> 2, great_room |-> 3,
   kitchen |-> 1, dining |-> 1, office |-> 1, primary_bath |-> 1, bathroom |-> 1]

\* inferWindowConfig(room).count
inferWindowCount(room) ==
  IF room.type \in DOMAIN WINDOW_RULES THEN WINDOW_RULES[room.type]
  ELSE Max(1, Min(4, (IF room.sqft >= 260 THEN 3 ELSE IF room.sqft >= 140 THEN 2 ELSE 1)
                       + (IF room.zone = "social" THEN 1 ELSE 0)))

chooseWindowType(room) ==
  IF room.type \in {"primary_bath", "bathroom", "half_bath"} THEN "clerestory"
  ELSE IF room.zone = "social" /\ room.sqft >= 220 THEN "picture"
  ELSE IF room.zone = "social" /\ room.sqft >= 160 THEN "bay"
  ELSE "standard"

\* the number of windows assignWindows gives the room
WindowTarget(room) ==
  IF room.zone = "exterior" \/ room.type \in {"garage", "hallway"} THEN 0
  ELSE IF room.needsExteriorWall THEN Max(1, inferWindowCount(room))
  ELSE inferWindowCount(room)

\* the loop of assignWindows from room n on; of a window its id, room, floor
\* and type are kept, its wall and its place on the wall are left out
RECURSIVE AssignWindowsFrom(_, _, _, _)
AssignWindowsFrom(rooms, n, windows, notes) ==
  IF n > Len(rooms) THEN [windows |-> windows, warnings |-> notes]
  ELSE LET room == rooms[n]
       IN IF WindowTarget(room) = 0 THEN AssignWindowsFrom(rooms, n + 1, windows, notes)
          ELSE IF room.exteriorWalls = {}
            THEN AssignWindowsFrom(rooms, n + 1, windows,
                                   IF room.needsExteriorWall
                                     THEN Append(notes, "Room " \o room.id
                                                   \o " needs exterior wall access")
                                     ELSE notes)
          ELSE AssignWindowsFrom(rooms, n + 1,
                 windows \o [index \in 1..WindowTarget(room) |->
                               [id |-> "window-" \o ToString(Len(windows) + index),
                                roomId |-> room.id, floor |-> room.floor,
                                type |-> chooseWindowType(room)]],
                 notes)

assignWindows(rooms, notes) == AssignWindowsFrom(rooms, 1, <<>>, notes)

(***************************************************************************)
(* Variations: the state machine.                                          *)
(***************************************************************************)
InitVariations ==
  /\ variationBrief \in Briefs
  /\ variationIndex = 1
  /\ variationPlans = <<>>
  /\ planStages = <<>>
  /\ planWindows = <<>>
  /\ roomsRef = 0
  /\ nextRef = 1

\* generateOneVariation up to its call of placeRooms: assignZones with the
\* options of the variation the loop is at
GenerateOneVariation ==
  /\ variationBrief # <<>>
  /\ phase = "idle"
  /\ variationIndex \in 1..Len(VARIATIONS)
  /\ \E variation \in {VARIATIONS[variationIndex]} :
       zoned' = assignZones(variationBrief,
                            [placementOrder |-> variation.placementOrder,
                             widthBias |-> variation.widthBias,
                             swapSocialPrivate |-> variation.swapSocialPrivate,
                             rotateEntry |-> variation.rotateEntry])
  /\ phase' = "zoned"
  /\ queue' = <<>>
  /\ floorGrids' = <<>>
  /\ planRooms' = <<>>
  /\ unplacedRoomIds' = <<>>
  /\ planDoors' = <<>>
  /\ warnings' = <<>>
  /\ iteration' = 0
  /\ circulation' = <<>>
  /\ planStages' = <<"assignZones">>
  /\ planWindows' = <<>>
  /\ roomsRef' = 0
  /\ UNCHANGED <<engineVars, briefVars, scoreVars, firstPass, variationBrief,
                 variationIndex, variationPlans, nextRef>>

\* mirrorPlan on the plan placeRooms returned.  The rooms list of that plan
\* is an array placeRooms made; mirrorPlan returns the plan itself, or a plan
\* with a new array of mirrored rooms
MirrorPlan ==
  /\ variationBrief # <<>>
  /\ phase = "placed"
  /\ \E variation \in {VARIATIONS[variationIndex]} :
       /\ planRooms' = mirrorPlan(planRooms, zoned.floorRects, variation.mirrorX,
                                  variation.mirrorY)
       /\ IF variation.mirrorX \/ variation.mirrorY
            THEN roomsRef' = nextRef + 1 /\ nextRef' = nextRef + 2
            ELSE roomsRef' = nextRef /\ nextRef' = nextRef + 1
  /\ phase' = "mirrored"
  /\ planStages' = Append(planStages, "mirrorPlan")
  /\ UNCHANGED <<engineVars, briefVars, scoreVars, firstPass, zoned, queue, floorGrids,
                 unplacedRoomIds, planDoors, warnings, iteration, circulation,
                 variationBrief, variationIndex, variationPlans, planWindows>>

\* ensureCirculation up to its loop: the rooms are cloned into a new array,
\* doors and warnings are copied
EnsureCirculationBegin ==
  /\ phase = "mirrored"
  /\ phase' = "circulating"
  /\ iteration' = 0
  /\ roomsRef' = nextRef
  /\ nextRef' = nextRef + 1
  /\ planStages' = Append(planStages, "ensureCirculation")
  /\ UNCHANGED <<engineVars, briefVars, scoreVars, firstPass, zoned, queue, floorGrids,
                 planRooms, unplacedRoomIds, planDoors, warnings, circulation,
                 variationBrief, variationIndex, variationPlans, planWindows>>

\* a repair iteration of the ensureCirculation call of the variation
RepairVariation ==
  /\ variationBrief # <<>>
  /\ phase = "circulating"
  /\ InsertHallway

\* the ensureCirculation call of the variation returns
CirculateVariation ==
  /\ variationBrief # <<>>
  /\ phase = "circulating"
  /\ EnsureCirculationReturn

\* assignWindows and withStrategy on the plan ensureCirculation returned,
\* and the push of the result onto `plans`
AssignWindows ==
  /\ variationBrief # <<>>
  /\ phase = "done"
  /\ \E assigned \in {assignWindows(planRooms, warnings)} :
       /\ planWindows' = assigned.windows
       /\ warnings' = assigned.warnings
       /\ variationPlans' =
            Append(variationPlans,
                   [strategy |-> VARIATIONS[variationIndex].name,
                    rooms |-> planRooms, roomsRef |-> roomsRef, doors |-> planDoors,
                    windows |-> assigned.windows, circulation |-> circulation,
                    unplacedRoomIds |-> unplacedRoomIds,
                    warnings |-> assigned.warnings,
                    stages |-> Append(planStages, "assignWindows")])
  /\ planStages' = Append(planStages, "assignWindows")
  /\ variationIndex' = variationIndex + 1
  /\ phase' = "idle"
  /\ UNCHANGED <<engineVars, briefVars, scoreVars, firstPass, zoned, queue, floorGrids,
                 planRooms, unplacedRoomIds, planDoors, iteration, circulation,
                 variationBrief, roomsRef, nextRef>>

NextVariations ==
  \/ GenerateOneVariation
  \/ PlaceRoomsBegin
  \/ PlaceRoom
  \/ LeaveRoomUnplaced
  \/ PlaceRoomsReturn
  \/ MirrorPlan
  \/ EnsureCirculationBegin
  \/ RepairVariation
  \/ CirculateVariation
  \/ AssignWindows

InitVariationsOnly ==
  InitEngine /\ LayoutIdle /\ BriefIdle /\ ScoreIdle /\ InitVariations

SpecVariations ==
  InitVariationsOnly /\ [][NextVariations]_vars

(***************************************************************************)
(* Variations: properties.                                                 *)
(***************************************************************************)
\* generateVariations has returned `plans`
VariationsReturned ==
  variationBrief # <<>> /\ phase = "idle" /\ variationIndex > Len(VARIATIONS)

\* C23: generateVariations returns exactly six plans, with the strategies
\* base-greedy, mirror-x, swap-zones, rotate-entry, proportion-wide and
\* reverse-order-mirror-y in this order; each plan has been through placement
\* (every room of the brief is placed or listed unplaced), mirroring,
\* circulation repair and window assignment; no two plans share a rooms list.
C23_SixVariationsInOrder ==
  VariationsReturned =>
    /\ Len(variationPlans) = 6
    /\ [n \in 1..6 |-> variationPlans[n].strategy]
         = <<"base-greedy", "mirror-x", "swap-zones", "rotate-entry", "proportion-wide",
             "reverse-order-mirror-y">>
    /\ \A n \in 1..6 :
         /\ variationPlans[n].stages
              = <<"assignZones", "mirrorPlan", "ensureCirculation", "assignWindows">>
         /\ \A room \in SeqToSet(variationBrief.rooms) :
              \/ \E placed \in SeqToSet(variationPlans[n].rooms) : placed.id = room.id
              \/ room.id \in SeqToSet(variationPlans[n].unplacedRoomIds)
    /\ \A n, k \in 1..6 : n # k => variationPlans[n].roomsRef # variationPlans[k].roomsRef

\* the six plans have been returned, one of them mirrored along x so that
\* its rooms differ from those of the base plan, one with windows
C23_Witness ==
  /\ VariationsReturned
  /\ variationPlans[2].rooms # variationPlans[1].rooms
  /\ \E n \in 1..6 : variationPlans[n].windows # <<>>

(***************************************************************************)
(* Layout pipeline: the adjacency lists of the returned plan.              *)
(***************************************************************************)
Lists(a, b) == b.id \in SeqToSet(a.adjacentRoomIds)

\* C24: in every plan ensureCirculation returns, the adjacency lists are
\* symmetric (b is listed by a iff a is listed by b), closed (every listed id
\* is the id of a room of the plan), and two rooms list each other only if
\* they share an edge of positive length on the same floor.
C24_AdjacencySymmetricAndClosed ==
  FirstReturn =>
    \A a \in SeqToSet(planRooms) :
      /\ \A id \in SeqToSet(a.adjacentRoomIds) :
           \E room \in SeqToSet(planRooms) : room.id = id
      /\ \A b \in SeqToSet(planRooms) :
           /\ Lists(a, b) <=> Lists(b, a)
           /\ (Lists(a, b) /\ Lists(b, a)) => areAdjacent(a, b)

(***************************************************************************)
(* Compliance engine: independence of the registries of distinct engines.  *)
(***************************************************************************)
\* what engine.check evaluates in a process in which no engine was touched
FreshEvaluated(plan, context, options) ==
  check([reg |-> InitialRegistry, lib |-> LibraryObjects], plan, context, options)
    .run.evaluated

\* C25: whatever was done to other engines (setRuleEnabled, register, check),
\* the engine runComplianceCheck creates sees the library's original enabled
\* flags and evaluates the rules an engine in a fresh process evaluates.
C25_RegistriesAreIndependent ==
  (lastCall.kind = "run" /\ lastCall.error = "") =>
    /\ \A i \in 1..Len(lastCall.rules) :
         lastCall.rules[i].id \in LibIds =>
           lastCall.rules[i].enabled = LibraryObjects[lastCall.rules[i].id].enabled
    /\ lastCall.evaluated
         = FreshEvaluated(lastCall.plan, lastCall.context, lastCall.options)

(***************************************************************************)
(* Compliance engine: the summary of the report.                           *)
(***************************************************************************)
ViolationsOfSeverity(severity) ==
  {<<i, n>> \in (1..Len(lastCall.results)) \X (1..8) :
     /\ n <= Len(lastCall.results[i].violations)
     /\ lastCall.results[i].violations[n].severity = severity}

PassedResults == {i \in 1..Len(lastCall.results) : lastCall.results[i].passed}

\* the counters of the summary, and overallCompliance, say what the results say
SummaryCounts ==
  /\ lastCall.summary.totalRules = Len(lastCall.results)
  /\ lastCall.summary.passed = Cardinality(PassedResults)
  /\ lastCall.summary.passed + lastCall.summary.failed = lastCall.summary.totalRules
  /\ lastCall.summary.warnings = Cardinality(ViolationsOfSeverity("warning"))
  /\ lastCall.summary.info = Cardinality(ViolationsOfSeverity("info"))
  /\ lastCall.summary.criticalViolations = Cardinality(ViolationsOfSeverity("error"))
  /\ lastCall.overallCompliance
       <=> /\ \A i \in 1..Len(lastCall.results) : lastCall.results[i].passed
           /\ ViolationsOfSeverity("error") = {}

\* C26 as stated: the counters say what the results say, compliancePercentage
\* is passed / totalRules x 100, and overallCompliance implies
\* compliancePercentage = 100.
C26_SummaryTalliesResults ==
  Reported =>
    /\ SummaryCounts
    /\ lastCall.summary.compliancePercentage * lastCall.summary.totalRules
         = 100 * lastCall.summary.passed
    /\ lastCall.overallCompliance => lastCall.summary.compliancePercentage = 100

\* C26: the counters say what the results say; compliancePercentage is
\* passed / totalRules x 100 rounded to the nearest whole number, and 0 when no
\* rule was evaluated; overallCompliance implies compliancePercentage = 100
\* when at least one rule was evaluated.
C26_SummaryTalliesResultsRounded ==
  Reported =>
    /\ SummaryCounts
    /\ IF lastCall.summary.totalRules = 0
         THEN lastCall.summary.compliancePercentage = 0
         ELSE /\ 2 * Abs(lastCall.summary.compliancePercentage * lastCall.summary.totalRules
                           - 100 * lastCall.summary.passed)
                   <= lastCall.summary.totalRules
              /\ lastCall.overallCompliance
                   => lastCall.summary.compliancePercentage = 100

\* a report of three results, two of them passed, with a warning counted:
\* its percentage is 67
C26_Witness ==
  /\ Reported
  /\ lastCall.summary.totalRules = 3
  /\ lastCall.summary.passed = 2
  /\ lastCall.summary.compliancePercentage = 67
  /\ lastCall.summary.warnings > 0

(***************************************************************************)
(* Circulation: components on another floor than the entry room's.         *)
(***************************************************************************)
FloorMismatchWarning == "Unable to auto-connect all components because floors do not align."

\* the rooms placeRooms returned, as ensureCirculation received them: the
\* loop appends one hallway for every two doors it adds
ReceivedRooms ==
  populateAdjacency([i \in 1..(Len(planRooms) - Len(planDoors) \div 2) |->
                       [planRooms[i] EXCEPT !.adjacentRoomIds = <<>>]])

\* a room on floor 2 is outside the entry room's component of the received
\* plan, and no room of that component is on floor 2
UpperFloorCutOff ==
  \E rooms \in {ReceivedRooms} :
    \E entryRoom \in {findEntryRoom(rooms)} :
      /\ entryRoom # NoRoom
      /\ \E i \in 1..Len(rooms) : rooms[i].floor = 2
      /\ \A id \in bfs(GraphOf(rooms), entryRoom.id) :
           \A i \in 1..Len(rooms) : rooms[i].id = id => rooms[i].floor # 2

FloorMismatchWarnings == {i \in 1..Len(warnings) : warnings[i] = FloorMismatchWarning}

\* no hallway was inserted on floor 2 and no door leads to a room of floor 2
NothingInsertedUpstairs ==
  /\ \A i \in 1..Len(planRooms) :
       (planRooms[i].floor = 2 /\ planRooms[i].type = "hallway")
         => i <= Len(planRooms) - Len(planDoors) \div 2
  /\ \A d \in 1..Len(planDoors) : \A i \in 1..Len(planRooms) :
       planRooms[i].id \in SeqToSet(planDoors[d].connectsRooms) => planRooms[i].floor # 2

\* C27: when a room of floor 2 is outside the entry room's component and that
\* component has no room on floor 2, ensureCirculation inserts no hallway and
\* no door upstairs, reports isFullyConnected = false and adds exactly one
\* warning about the floor mismatch.
C27_FloorsAreNotBridged ==
  (FirstReturn /\ UpperFloorCutOff) =>
    /\ NothingInsertedUpstairs
    /\ ~circulation.isFullyConnected
    /\ Cardinality(FloorMismatchWarnings) = 1

(***************************************************************************)
(* Normalizer: adjacency preferences.                                      *)
(***************************************************************************)
\* the room wants rooms of the type next to it / away from it
Wants(room, type) == type \in SeqToSet(room.adjacentTo)
Avoids(room, type) == type \in SeqToSet(room.awayFrom)

\* C28: in every normalized brief, for rooms A and B of different types, if
\* B's type is in A.adjacentTo then A's type is in B.adjacentTo and not in
\* B.awayFrom; for every room, adjacentTo and awayFrom are disjoint and
\* neither contains the room's own type.
C28_AdjacencyIsSymmetric ==
  Normalized =>
    /\ \A a, b \in 1..Len(normalizedBrief.rooms) :
         (/\ normalizedBrief.rooms[a].type # normalizedBrief.rooms[b].type
          /\ Wants(normalizedBrief.rooms[a], normalizedBrief.rooms[b].type))
           => /\ Wants(normalizedBrief.rooms[b], normalizedBrief.rooms[a].type)
              /\ ~Avoids(normalizedBrief.rooms[b], normalizedBrief.rooms[a].type)
    /\ \A a \in 1..Len(normalizedBrief.rooms) :
         /\ SeqToSet(normalizedBrief.rooms[a].adjacentTo)
              \cap SeqToSet(normalizedBrief.rooms[a].awayFrom) = {}
         /\ ~Wants(normalizedBrief.rooms[a], normalizedBrief.rooms[a].type)
         /\ ~Avoids(normalizedBrief.rooms[a], normalizedBrief.rooms[a].type)

(***************************************************************************)
(* Placement: every zoned room is placed or reported.                      *)
(***************************************************************************)
ZonedIds == {zoned.rooms[i].id : i \in 1..Len(zoned.rooms)}

PlacedIds == {planRooms[i].id : i \in 1..Len(planRooms)}

\* some candidate rectangle of the room lies on free cells of its floor
FitsSomewhere(room) ==
  /\ room.floor \in DOMAIN zoned.floorRects
  /\ \E floorRect \in {zoned.floorRects[room.floor]} :
       \E dims \in SeqToSet(dimensionCandidates(room, zoned.options.widthBias)) :
         \E x \in floorRect.x..(floorRect.x + floorRect.width - dims.width),
            y \in floorRect.y..(floorRect.y + floorRect.depth - dims.depth) :
           isRectFree(floorGrids[room.floor], floorRect, x, y, dims.width, dims.depth)

\* C29: placeRooms returns a plan in which the id of every zoned room is
\* exactly once either the id of a placed room or in unplacedRoomIds, never
\* in both; no candidate rectangle of an unplaced room fits free cells of its
\* floor, and every unplaced room has added one warning.  While the loop
\* runs, the rooms still queued are the zoned rooms not yet placed or reported.
C29_PlacedOrReported ==
  /\ phase \in {"placing", "placed"} =>
       /\ PlacedIds \cup SeqToSet(unplacedRoomIds) \cup {queue[i].id : i \in 1..Len(queue)}
            = ZonedIds
       /\ PlacedIds \cap SeqToSet(unplacedRoomIds) = {}
       /\ Cardinality(PlacedIds) = Len(planRooms)
       /\ Cardinality(SeqToSet(unplacedRoomIds)) = Len(unplacedRoomIds)
       /\ Len(planRooms) + Len(unplacedRoomIds) + Len(queue) = Len(zoned.rooms)
       /\ Len(warnings) = Len(unplacedRoomIds)
       /\ \A i \in 1..Len(zoned.rooms) :
            zoned.rooms[i].id \in SeqToSet(unplacedRoomIds) => ~FitsSomewhere(zoned.rooms[i])
  /\ phase = "placed" => queue = <<>>

\* placeRooms has returned a plan with placed rooms and two reported ones
C29_Witness ==
  /\ phase = "placed"
  /\ Len(unplacedRoomIds) = 2
  /\ Len(warnings) = 2
  /\ Len(planRooms) >= 2

(***************************************************************************)
(* The pipeline from a brief to a compliance report.                       *)
(***************************************************************************)
\* a bedroom request with a target area of 50 sq ft
SmallBedroom == [PlainRequest("bedroom") EXCEPT !.targetSqft = 50]

\* briefs that ask for a bedroom of 50 sq ft, with the default minimum area or
\* with a minimum of 50 sq ft of their own
PipelineBriefs ==
  [targetSqft : {150, 250}, stories : {1, 2}, style : {"ranch"},
   lot : {NoLot,
          [maxWidth |-> 24, maxDepth |-> 24, setbackFront |-> 2, setbackSide |-> 2,
           setbackRear |-> 2, entryFacing |-> "west", garagePosition |-> "none"],
          [maxWidth |-> 40, maxDepth |-> 30, setbackFront |-> 4, setbackSide |-> 4,
           setbackRear |-> 4, entryFacing |-> "west", garagePosition |-> "none"]},
   rooms : {<<SmallBedroom>>,
            <<[SmallBedroom EXCEPT !.minSqft = 50]>>,
            <<SmallBedroom, PlainRequest("bedroom")>>}]

InitPipeline ==
  /\ designBrief \in PipelineBriefs
  /\ normalizedBrief = <<>>
  /\ buildingEnvelope = <<>>
  /\ zonedBrief = <<>>

\* placeRooms(zoned, envelope) is called on the zoned brief: the code before
\* its loop
PlaceRoomsOfBrief ==
  /\ zonedBrief # <<>>
  /\ phase = "idle"
  /\ zoned' = [zonedBrief EXCEPT
                 !.rooms = [i \in 1..Len(zonedBrief.rooms) |->
                              [zonedBrief.rooms[i] EXCEPT !.adjacentTo = SeqToSet(@),
                                                          !.awayFrom = SeqToSet(@)]]]
  /\ phase' = "placing"
  /\ floorGrids' = createFloorGrids(zonedBrief.floorRects)
  /\ queue' = orderedRooms(zoned'.rooms, zonedBrief.options.placementOrder)
  /\ UNCHANGED <<engineVars, briefVars, scoreVars, variationVars, firstPass,
                 planRooms, unplacedRoomIds, planDoors, warnings, iteration, circulation>>

\* the plan of the pipeline as the compliance engine reads it
PipelinePlan ==
  Plan([i \in 1..Len(planRooms) |->
          [id |-> planRooms[i].id, type |-> planRooms[i].type, sqft |-> planRooms[i].sqft,
           adjacentRoomIds |-> SeqToSet(planRooms[i].adjacentRoomIds)]],
       planDoors)

\* runComplianceCheck(plan, 'irc-base') on the plan ensureCirculation returned
CheckPipelinePlan ==
  /\ phase = "done"
  /\ designBrief # <<>>
  /\ RunComplianceCheck(PipelinePlan, "irc-base", NoOptions)

\* runComplianceCheck(plan, 'irc-base') on a plan that did not come from the
\* pipeline
CheckGivenPlan ==
  /\ phase = "idle"
  /\ normalizedBrief = <<>>
  /\ \E plan \in Plans : RunComplianceCheck(plan, "irc-base", NoOptions)

NextPipeline ==
  \/ NormalizeDesignBrief
  \/ ComputeEnvelope
  \/ AssignZonesOfBrief
  \/ PlaceRoomsOfBrief
  \/ PlaceRoom
  \/ LeaveRoomUnplaced
  \/ PlaceRoomsReturn
  \/ InsertHallway
  \/ EnsureCirculationReturn
  \/ CheckPipelinePlan
  \/ CheckGivenPlan

InitPipelineOnly == InitEngine /\ LayoutIdle /\ InitPipeline /\ ScoreIdle /\ VariationsIdle

SpecPipeline ==
  InitPipelineOnly /\ [][NextPipeline]_vars

\* the report of R304.1-bedroom-area in the last call
BedroomAreaResult == ResultFor(lastCall.results, R3041)

\* the bedrooms and primary bedrooms of the checked plan below 70 sq ft
SmallBedrooms ==
  {i \in 1..Len(lastCall.plan.rooms) :
     isBedroom(lastCall.plan.rooms[i]) /\ lastCall.plan.rooms[i].sqft < 70}

\* R304.1 reports exactly the small bedrooms, each with its area, 70 and
\* severity error, and passes iff there is none
ReportsSmallBedrooms ==
  /\ BedroomAreaResult.passed <=> SmallBedrooms = {}
  /\ Len(BedroomAreaResult.violations) = Cardinality(SmallBedrooms)
  /\ \A i \in SmallBedrooms :
       \E n \in 1..Len(BedroomAreaResult.violations) :
         BedroomAreaResult.violations[n]
           = [id |-> <<lastCall.plan.rooms[i].id, "bedroom-area-violation">>,
              severity |-> "error",
              currentValue |-> lastCall.plan.rooms[i].sqft,
              requiredValue |-> 70]

\* the engine has reported on the plan of the pipeline
PipelineReported ==
  /\ phase = "done"
  /\ lastCall.kind = "run" /\ lastCall.error = ""
  /\ lastCall.plan = PipelinePlan

\* the bedroom the brief asked for with 50 sq ft
AskedSmall == designBrief.rooms[1].targetSqft = 50

\* C30 as stated: after the pipeline on a brief that asks for a bedroom of
\* 50 sq ft, R304.1-bedroom-area has passed = false and a violation for that
\* bedroom with currentValue 50, requiredValue 70 and severity error; and the
\* rule reports exactly the bedrooms below 70 sq ft.
C30_SmallBedroomIsReported ==
  /\ (lastCall.kind = "run" /\ lastCall.error = "") => ReportsSmallBedrooms
  /\ (PipelineReported /\ AskedSmall) =>
       /\ ~BedroomAreaResult.passed
       /\ \E n \in 1..Len(BedroomAreaResult.violations) :
            BedroomAreaResult.violations[n]
              = [id |-> <<"bedroom-1", "bedroom-area-violation">>, severity |-> "error",
                 currentValue |-> 50, requiredValue |-> 70]

\* C30: R304.1-bedroom-area reports exactly the bedrooms and primary bedrooms
\* of the checked plan below 70 sq ft, each with its area as currentValue,
\* requiredValue 70 and severity error.  After the pipeline on a brief that
\* asks for a bedroom of 50 sq ft, every placed bedroom has at least its
\* minimum width times its minimum depth, 100 sq ft, and the rule has
\* passed = true without a violation.
C30_PipelineBedroomsPass ==
  /\ (lastCall.kind = "run" /\ lastCall.error = "") => ReportsSmallBedrooms
  /\ (PipelineReported /\ AskedSmall) =>
       /\ \A i \in 1..Len(planRooms) :
            isBedroom(planRooms[i]) =>
              planRooms[i].sqft >= ROOM_DEFAULTS[planRooms[i].type].minWidth
                                     * ROOM_DEFAULTS[planRooms[i].type].minDepth
       /\ BedroomAreaResult.passed
       /\ BedroomAreaResult.violations = <<>>

\* the pipeline has placed the bedroom asked for with 50 sq ft and a minimum
\* of 50 sq ft, and the engine has reported on the plan
C30_Witness ==
  /\ PipelineReported /\ AskedSmall
  /\ designBrief.rooms[1].minSqft = 50
  /\ \E i \in 1..Len(planRooms) : planRooms[i].id = "bedroom-1"
  /\ BedroomAreaResult.passed

\* the engine has reported a bedroom of 50 sq ft of a plan handed to it
C30_GivenPlanWitness ==
  /\ lastCall.kind = "run" /\ lastCall.error = ""
  /\ phase = "idle"
  /\ SmallBedrooms # {}
  /\ ~BedroomAreaResult.passed

====
